---- MODULE Spec2Model ----
(***************************************************************************)
(* Model of the RISC-V virtual-memory layer of lk (arch/riscv/mmu.cpp):    *)
(* the generic page-table walker riscv_pt_walk, the three visitors behind  *)
(* arch_mmu_map / arch_mmu_unmap / arch_mmu_query, and the TLB range       *)
(* flush.                                                                  *)
(*                                                                         *)
(* Addresses are machine words of AddrBits bits (arithmetic wraps modulo   *)
(* 2^AddrBits, as vaddr_t / paddr_t do modulo 2^64).  The geometry of the  *)
(* tables is the code's, with narrower fields: a page has                  *)
(* 2^PAGE_SIZE_SHIFT bytes and a table 2^RISCV_MMU_PT_SHIFT entries, so    *)
(* that a walk, a table boundary and a wrap of the address all fit in a    *)
(* state space TLC can enumerate.                                          *)
(*                                                                         *)
(* A page-table entry is the record [ppn, bits]: bits is the set of the    *)
(* flag bits that are 1 in the low byte of the riscv_pte_t, ppn the value  *)
(* of its PPN field.  x & MASK # 0 is  bits \cap MASK # {}.                *)
(***************************************************************************)
EXTENDS Integers, Sequences, FiniteSets, TLC

(***************************************************************************)
(* Bounds of the model.                                                    *)
(***************************************************************************)
PAGE_SIZE_SHIFT == 1
RISCV_MMU_PT_SHIFT == 2
RISCV_MMU_PT_LEVELS == 3
PoolSize == 3
MaxCount == 2
MaxOps == 2
NumHarts == 2
RISCV_SATP_ASID_SIZE == 3
MaxInits == 3
RacePoolSize == 4
CMD_COUNT == 2
NumThreads == 3

(***************************************************************************)
(* Derived geometry.                                                       *)
(***************************************************************************)
PAGE_SIZE == 2 ^ PAGE_SIZE_SHIFT
RISCV_MMU_PT_ENTRIES == 2 ^ RISCV_MMU_PT_SHIFT
CanonBits == PAGE_SIZE_SHIFT + RISCV_MMU_PT_LEVELS * RISCV_MMU_PT_SHIFT
RISCV_MMU_CANONICAL_MASK == (2 ^ CanonBits) - 1
AddrBits == CanonBits + 1
AddrModulus == 2 ^ AddrBits

\* the kernel address space is the top, sign-extended half of the canonical range
KERNEL_ASPACE_SIZE == 2 ^ (CanonBits - 1)
KERNEL_ASPACE_BASE == AddrModulus - KERNEL_ASPACE_SIZE

\* unsigned machine arithmetic on vaddr_t / paddr_t
WordAdd(a, b) == (a + b) % AddrModulus
WordSub(a, b) == (a + AddrModulus - (b % AddrModulus)) % AddrModulus

RECURSIVE BitOr(_, _)
BitOr(a, b) ==
    IF a = 0 THEN b
    ELSE IF b = 0 THEN a
    ELSE (IF a % 2 = 1 \/ b % 2 = 1 THEN 1 ELSE 0) + 2 * BitOr(a \div 2, b \div 2)

\* x & (2^k - 1)
BitAndMask(a, mask) == a % (mask + 1)

(***************************************************************************)
(* Status codes and flag names.                                            *)
(***************************************************************************)
NO_ERROR == "NO_ERROR"
ERR_NOT_FOUND == "ERR_NOT_FOUND"
ERR_NO_MEMORY == "ERR_NO_MEMORY"
ERR_ALREADY_EXISTS == "ERR_ALREADY_EXISTS"
ERR_OUT_OF_RANGE == "ERR_OUT_OF_RANGE"
ERR_NOT_IMPLEMENTED == "ERR_NOT_IMPLEMENTED"
\* panic() does not return: the call has no status
PANIC == "PANIC"

ARCH_MMU_FLAG_PERM_USER == "PERM_USER"
ARCH_MMU_FLAG_PERM_RO == "PERM_RO"
ARCH_MMU_FLAG_PERM_NO_EXECUTE == "PERM_NO_EXECUTE"
MmuFlags == {ARCH_MMU_FLAG_PERM_USER, ARCH_MMU_FLAG_PERM_RO, ARCH_MMU_FLAG_PERM_NO_EXECUTE}
ARCH_ASPACE_FLAG_KERNEL == "ASPACE_KERNEL"

RISCV_PTE_V == "V"
RISCV_PTE_R == "R"
RISCV_PTE_W == "W"
RISCV_PTE_X == "X"
RISCV_PTE_U == "U"
RISCV_PTE_G == "G"
RISCV_PTE_A == "A"
RISCV_PTE_D == "D"
RISCV_PTE_PERM_MASK == {RISCV_PTE_R, RISCV_PTE_W, RISCV_PTE_X}
PteBits == {RISCV_PTE_V, RISCV_PTE_R, RISCV_PTE_W, RISCV_PTE_X,
            RISCV_PTE_U, RISCV_PTE_G, RISCV_PTE_A, RISCV_PTE_D}

\* the all-zero entry
ZeroPte == [ppn |-> 0, bits |-> {}]

\* physical address held in the PPN field of an entry
RISCV_PTE_PPN(pte) == (pte.ppn * PAGE_SIZE) % AddrModulus
\* PPN field for a physical address: the in-page bits are shifted out
RISCV_PTE_PPN_TO_PTE(paddr) == paddr \div PAGE_SIZE

(***************************************************************************)
(* Pure helpers of mmu.cpp.                                                *)
(***************************************************************************)
LevelOk(level) == level >= 0 /\ level < RISCV_MMU_PT_LEVELS

\* callers check LevelOk first (the DEBUG_ASSERT of the code)
vaddr_to_index(va, level) ==
    ((BitAndMask(va, RISCV_MMU_CANONICAL_MASK) \div PAGE_SIZE)
        \div (RISCV_MMU_PT_ENTRIES ^ level)) % RISCV_MMU_PT_ENTRIES

page_size_per_level(level) == 2 ^ (PAGE_SIZE_SHIFT + level * RISCV_MMU_PT_SHIFT)

page_mask_per_level(level) == page_size_per_level(level) - 1

\* mutant: the read-only flag is ignored, the page is always writable
mmu_flags_to_pte_always_writable(flags) ==
    (IF ARCH_MMU_FLAG_PERM_USER \in flags THEN {RISCV_PTE_U} ELSE {})
    \cup {RISCV_PTE_R, RISCV_PTE_W}
    \cup (IF ARCH_MMU_FLAG_PERM_NO_EXECUTE \in flags THEN {} ELSE {RISCV_PTE_X})

\* mutant: the read bit is not set, a read-only no-execute page gets no
\* permission bit at all
mmu_flags_to_pte_no_read(flags) ==
    (IF ARCH_MMU_FLAG_PERM_USER \in flags THEN {RISCV_PTE_U} ELSE {})
    \cup (IF ARCH_MMU_FLAG_PERM_RO \in flags THEN {} ELSE {RISCV_PTE_W})
    \cup (IF ARCH_MMU_FLAG_PERM_NO_EXECUTE \in flags THEN {} ELSE {RISCV_PTE_X})

mmu_flags_to_pte(flags) ==
    (IF ARCH_MMU_FLAG_PERM_USER \in flags THEN {RISCV_PTE_U} ELSE {})
    \cup (IF ARCH_MMU_FLAG_PERM_RO \in flags
            THEN {RISCV_PTE_R} ELSE {RISCV_PTE_R, RISCV_PTE_W})
    \cup (IF ARCH_MMU_FLAG_PERM_NO_EXECUTE \in flags THEN {} ELSE {RISCV_PTE_X})

pte_flags_to_mmu_flags(pte) ==
    (IF pte.bits \cap {RISCV_PTE_R, RISCV_PTE_W} = {RISCV_PTE_R}
        THEN {ARCH_MMU_FLAG_PERM_RO} ELSE {})
    \cup (IF RISCV_PTE_X \in pte.bits THEN {} ELSE {ARCH_MMU_FLAG_PERM_NO_EXECUTE})
    \cup (IF RISCV_PTE_U \in pte.bits THEN {ARCH_MMU_FLAG_PERM_USER} ELSE {})

(***************************************************************************)
(* Physical memory holding page tables.  Table pages are named by their    *)
(* physical page number; paddr_to_kvaddr is the identity on them.  RootPpn *)
(* is kernel_pgtable (kernel_pgtable_phys); the pool is what pmm_alloc_page*)
(* can hand out.  A free page holds whatever its last user left there.     *)
(***************************************************************************)
RootPpn == 1
PoolPpns == (RootPpn + 1) .. (RootPpn + PoolSize)
TablePpns == {RootPpn} \cup PoolPpns
Slots == 0 .. (RISCV_MMU_PT_ENTRIES - 1)

ZeroTable == [i \in Slots |-> ZeroPte]
\* stale contents of a page that was never zeroed: looks like valid leaves
JunkPte == [ppn |-> RootPpn, bits |-> {RISCV_PTE_V, RISCV_PTE_R, RISCV_PTE_W}]
JunkTable == [i \in Slots |-> JunkPte]

paddr_to_kvaddr(pa) == pa \div PAGE_SIZE
vm_page_to_paddr(p) == p * PAGE_SIZE

MinOf(S) == CHOOSE x \in S : \A y \in S : x <= y

(***************************************************************************)
(* The walker's locals, the callback's captures and the memory it works    *)
(* on, as one record w.                                                    *)
(*   cb      which lambda is plugged in: "map", "unmap", "query"           *)
(*   pc      "loop" inside for(;;), "done" after return, "panic" after a   *)
(*           failed DEBUG_ASSERT or PANIC_UNIMPLEMENTED_MSG                *)
(*   budget  how many more times pmm_alloc_page succeeds in this call      *)
(*   calls   how many times the callback ran, replies the walk_cb_ret values*)
(*           it gave, stores how many times the walker wrote *ptep         *)
(***************************************************************************)
PanicW(w, why) == [w EXCEPT !.pc = "panic", !.ret = PANIC, !.why = why]

ReturnW(w, status) == [w EXCEPT !.pc = "done", !.ret = status]

\* restart: bootstrap the top level walk (mmu.cpp 243-247)
WalkRestart(w) ==
    [w EXCEPT !.level = RISCV_MMU_PT_LEVELS - 1,
              !.index = vaddr_to_index(w.vaddr, RISCV_MMU_PT_LEVELS - 1),
              !.tbl = w.root]

\* go one level deeper into the table at ptv (mmu.cpp 262-265 and 302-305);
\* level is unsigned, so level-- at 0 wraps and vaddr_to_index asserts
WalkDescend(w, ptv) ==
    LET lvl == w.level - 1 IN
    IF ~LevelOk(lvl) THEN PanicW(w, "assert level")
    ELSE IF ptv \notin DOMAIN w.mem THEN PanicW(w, "wild table pointer")
    ELSE [w EXCEPT !.level = lvl,
                   !.index = vaddr_to_index(w.vaddr, lvl),
                   !.tbl = ptv]

\* mutant: the page is handed back as the allocator left it, without memset
alloc_ptable_no_memset(w) ==
    IF w.budget = 0 \/ w.free = {}
    THEN [ok |-> FALSE, pa |-> 0, w |-> w]
    ELSE LET p == MinOf(w.free) IN
         [ok |-> TRUE,
          pa |-> vm_page_to_paddr(p),
          w  |-> [w EXCEPT !.free = @ \ {p}, !.budget = @ - 1]]

\* mutant: the page handed out stays in the allocator's pool
alloc_ptable_page_not_taken(w) ==
    IF w.budget = 0 \/ w.free = {}
    THEN [ok |-> FALSE, pa |-> 0, w |-> w]
    ELSE LET p == MinOf(w.free) IN
         [ok |-> TRUE,
          pa |-> vm_page_to_paddr(p),
          w  |-> [w EXCEPT !.budget = @ - 1,
                           !.mem = [@ EXCEPT ![p] = ZeroTable]]]

\* alloc_ptable: NULL (ok = FALSE) when pmm_alloc_page fails, else a zeroed page
alloc_ptable(w) ==
    IF w.budget = 0 \/ w.free = {}
    THEN [ok |-> FALSE, pa |-> 0, w |-> w]
    ELSE LET p == MinOf(w.free) IN
         [ok |-> TRUE,
          pa |-> vm_page_to_paddr(p),
          w  |-> [w EXCEPT !.free = @ \ {p},
                           !.budget = @ - 1,
                           !.mem = [@ EXCEPT ![p] = ZeroTable]]]

CbReply(reply, pte, w) == [reply |-> reply, pte |-> pte, w |-> w]

\* the three places where a callback stops the machine on a valid entry
CbPanic(w, pte, msg) ==
    CbReply("PANIC", pte,
            [w EXCEPT !.why = IF pte.bits \cap RISCV_PTE_PERM_MASK = {}
                              THEN "assert perm" ELSE msg])

\* mutant: the new leaf is built without the accessed and dirty bits
map_cb_no_accessed_dirty(w, pte) ==
    IF RISCV_PTE_V \in pte.bits
    THEN CbPanic(w, pte, IF w.level > 0 THEN "terminal large page entry"
                                        ELSE "terminal page entry")
    ELSE IF w.level > 0
    THEN CbReply("ALLOC_PT", pte, w)
    ELSE LET temp_pte ==
                [ppn  |-> RISCV_PTE_PPN_TO_PTE(w.paddr),
                 bits |-> mmu_flags_to_pte(w.flags) \cup {RISCV_PTE_V}
                          \cup (IF ARCH_ASPACE_FLAG_KERNEL \in w.aflags
                                  THEN {RISCV_PTE_G} ELSE {})]
             w2 == [w EXCEPT !.vaddr = WordAdd(@, PAGE_SIZE),
                             !.paddr = WordAdd(@, PAGE_SIZE),
                             !.count = @ - 1]
         IN CbReply(IF w2.count = 0 THEN "COMMIT_AND_HALT"
                                    ELSE "COMMIT_AND_RESTART", temp_pte, w2)

\* mutant: an invalid entry is answered with ALLOC_PT at level 0 too
map_cb_alloc_at_level0(w, pte) ==
    IF RISCV_PTE_V \in pte.bits
    THEN CbPanic(w, pte, IF w.level > 0 THEN "terminal large page entry"
                                        ELSE "terminal page entry")
    ELSE CbReply("ALLOC_PT", pte, w)

\* mutant: an invalid entry gets the new leaf at whatever level it is found
map_cb_leaf_at_any_level(w, pte) ==
    IF RISCV_PTE_V \in pte.bits
    THEN CbPanic(w, pte, IF w.level > 0 THEN "terminal large page entry"
                                        ELSE "terminal page entry")
    ELSE LET temp_pte ==
                [ppn  |-> RISCV_PTE_PPN_TO_PTE(w.paddr),
                 bits |-> mmu_flags_to_pte(w.flags)
                          \cup {RISCV_PTE_A, RISCV_PTE_D, RISCV_PTE_V}
                          \cup (IF ARCH_ASPACE_FLAG_KERNEL \in w.aflags
                                  THEN {RISCV_PTE_G} ELSE {})]
             w2 == [w EXCEPT !.vaddr = WordAdd(@, PAGE_SIZE),
                             !.paddr = WordAdd(@, PAGE_SIZE),
                             !.count = @ - 1]
         IN CbReply(IF w2.count = 0 THEN "COMMIT_AND_HALT"
                                    ELSE "COMMIT_AND_RESTART", temp_pte, w2)

\* mutant: the physical cursor is not advanced with the virtual one
map_cb_paddr_not_advanced(w, pte) ==
    IF RISCV_PTE_V \in pte.bits
    THEN CbPanic(w, pte, IF w.level > 0 THEN "terminal large page entry"
                                        ELSE "terminal page entry")
    ELSE IF w.level > 0
    THEN CbReply("ALLOC_PT", pte, w)
    ELSE LET temp_pte ==
                [ppn  |-> RISCV_PTE_PPN_TO_PTE(w.paddr),
                 bits |-> mmu_flags_to_pte(w.flags)
                          \cup {RISCV_PTE_A, RISCV_PTE_D, RISCV_PTE_V}
                          \cup (IF ARCH_ASPACE_FLAG_KERNEL \in w.aflags
                                  THEN {RISCV_PTE_G} ELSE {})]
             w2 == [w EXCEPT !.vaddr = WordAdd(@, PAGE_SIZE),
                             !.count = @ - 1]
         IN CbReply(IF w2.count = 0 THEN "COMMIT_AND_HALT"
                                    ELSE "COMMIT_AND_RESTART", temp_pte, w2)

\* map_cb (mmu.cpp 334-384)
map_cb(w, pte) ==
    IF RISCV_PTE_V \in pte.bits
    THEN \* DEBUG_ASSERT, then PANIC_UNIMPLEMENTED_MSG at either level: the
         \* two lines setting ERR_ALREADY_EXISTS after it are never reached
         CbPanic(w, pte, IF w.level > 0 THEN "terminal large page entry"
                                        ELSE "terminal page entry")
    ELSE IF w.level > 0
    THEN CbReply("ALLOC_PT", pte, w)
    ELSE LET temp_pte ==
                [ppn  |-> RISCV_PTE_PPN_TO_PTE(w.paddr),
                 bits |-> mmu_flags_to_pte(w.flags)
                          \cup {RISCV_PTE_A, RISCV_PTE_D, RISCV_PTE_V}
                          \cup (IF ARCH_ASPACE_FLAG_KERNEL \in w.aflags
                                  THEN {RISCV_PTE_G} ELSE {})]
             w2 == [w EXCEPT !.vaddr = WordAdd(@, PAGE_SIZE),
                             !.paddr = WordAdd(@, PAGE_SIZE),
                             !.count = @ - 1]
         IN CbReply(IF w2.count = 0 THEN "COMMIT_AND_HALT"
                                    ELSE "COMMIT_AND_RESTART", temp_pte, w2)

\* mutant: the valid branch forgets *pte = 0
unmap_cb_keep_entry(w, pte) ==
    LET w2 == [w EXCEPT !.vaddr = WordAdd(@, PAGE_SIZE), !.count = @ - 1] IN
    IF RISCV_PTE_V \in pte.bits
    THEN IF pte.bits \cap RISCV_PTE_PERM_MASK = {} \/ w.level > 0
         THEN CbPanic(w, pte, "cannot handle unmapping of large page")
         ELSE CbReply(IF w2.count = 0 THEN "COMMIT_AND_HALT"
                                      ELSE "COMMIT_AND_RESTART", pte, w2)
    ELSE CbReply(IF w2.count = 0 THEN "HALT" ELSE "RESTART", pte, w2)

\* mutant: the count is tested before it is decremented, one page too many
unmap_cb_one_too_many(w, pte) ==
    LET w2 == [w EXCEPT !.vaddr = WordAdd(@, PAGE_SIZE), !.count = @ - 1] IN
    IF RISCV_PTE_V \in pte.bits
    THEN IF pte.bits \cap RISCV_PTE_PERM_MASK = {} \/ w.level > 0
         THEN CbPanic(w, pte, "cannot handle unmapping of large page")
         ELSE CbReply(IF w.count = 0 THEN "COMMIT_AND_HALT"
                                     ELSE "COMMIT_AND_RESTART", ZeroPte, w2)
    ELSE CbReply(IF w.count = 0 THEN "HALT" ELSE "RESTART", pte, w2)

\* mutant: a hole above level 0 asks for a table, as map_cb does
unmap_cb_alloc_on_hole(w, pte) ==
    LET w2 == [w EXCEPT !.vaddr = WordAdd(@, PAGE_SIZE), !.count = @ - 1] IN
    IF RISCV_PTE_V \in pte.bits
    THEN IF pte.bits \cap RISCV_PTE_PERM_MASK = {} \/ w.level > 0
         THEN CbPanic(w, pte, "cannot handle unmapping of large page")
         ELSE CbReply(IF w2.count = 0 THEN "COMMIT_AND_HALT"
                                      ELSE "COMMIT_AND_RESTART", ZeroPte, w2)
    ELSE IF w.level > 0 THEN CbReply("ALLOC_PT", pte, w)
    ELSE CbReply(IF w2.count = 0 THEN "HALT" ELSE "RESTART", pte, w2)

\* mutant: the level is not tested, a leaf is zeroed wherever it is found
unmap_cb_zero_large_page(w, pte) ==
    LET w2 == [w EXCEPT !.vaddr = WordAdd(@, PAGE_SIZE), !.count = @ - 1] IN
    IF RISCV_PTE_V \in pte.bits
    THEN IF pte.bits \cap RISCV_PTE_PERM_MASK = {}
         THEN CbPanic(w, pte, "assert perm")
         ELSE CbReply(IF w2.count = 0 THEN "COMMIT_AND_HALT"
                                      ELSE "COMMIT_AND_RESTART", ZeroPte, w2)
    ELSE CbReply(IF w2.count = 0 THEN "HALT" ELSE "RESTART", pte, w2)

\* mutant: a hole is answered with the committing replies of the valid branch
unmap_cb_commit_on_hole(w, pte) ==
    LET w2 == [w EXCEPT !.vaddr = WordAdd(@, PAGE_SIZE), !.count = @ - 1] IN
    IF RISCV_PTE_V \in pte.bits
    THEN IF pte.bits \cap RISCV_PTE_PERM_MASK = {} \/ w.level > 0
         THEN CbPanic(w, pte, "cannot handle unmapping of large page")
         ELSE CbReply(IF w2.count = 0 THEN "COMMIT_AND_HALT"
                                      ELSE "COMMIT_AND_RESTART", ZeroPte, w2)
    ELSE CbReply(IF w2.count = 0 THEN "COMMIT_AND_HALT"
                                 ELSE "COMMIT_AND_RESTART", pte, w2)

\* mutant: on a hole the address is advanced but the count is not decremented
unmap_cb_count_kept_on_hole(w, pte) ==
    LET w2 == [w EXCEPT !.vaddr = WordAdd(@, PAGE_SIZE), !.count = @ - 1] IN
    IF RISCV_PTE_V \in pte.bits
    THEN IF pte.bits \cap RISCV_PTE_PERM_MASK = {} \/ w.level > 0
         THEN CbPanic(w, pte, "cannot handle unmapping of large page")
         ELSE CbReply(IF w2.count = 0 THEN "COMMIT_AND_HALT"
                                      ELSE "COMMIT_AND_RESTART", ZeroPte, w2)
    ELSE CbReply("RESTART", pte, [w EXCEPT !.vaddr = WordAdd(@, PAGE_SIZE)])

\* unmap_cb (mmu.cpp 455-488)
unmap_cb(w, pte) ==
    LET w2 == [w EXCEPT !.vaddr = WordAdd(@, PAGE_SIZE), !.count = @ - 1] IN
    IF RISCV_PTE_V \in pte.bits
    THEN IF pte.bits \cap RISCV_PTE_PERM_MASK = {} \/ w.level > 0
         THEN CbPanic(w, pte, "cannot handle unmapping of large page")
         ELSE CbReply(IF w2.count = 0 THEN "COMMIT_AND_HALT"
                                      ELSE "COMMIT_AND_RESTART", ZeroPte, w2)
    ELSE CbReply(IF w2.count = 0 THEN "HALT" ELSE "RESTART", pte, w2)

\* mutant: the visitor marks the entry it read and asks for a write-back
query_cb_commits(w, pte) ==
    IF RISCV_PTE_V \in pte.bits
    THEN IF pte.bits \cap RISCV_PTE_PERM_MASK = {}
         THEN CbPanic(w, pte, "assert perm")
         ELSE CbReply("COMMIT_AND_HALT", [pte EXCEPT !.bits = @ \cup {RISCV_PTE_A}],
                [w EXCEPT !.qpaddr = IF w.wantP
                                     THEN BitOr(RISCV_PTE_PPN(pte),
                                                BitAndMask(w.vaddr, page_mask_per_level(w.level)))
                                     ELSE @,
                          !.qflags = IF w.wantF THEN pte_flags_to_mmu_flags(pte) ELSE @,
                          !.err = NO_ERROR])
    ELSE CbReply("HALT", pte, [w EXCEPT !.err = ERR_NOT_FOUND])

\* mutant: the offset is always taken with the mask of the base page
query_cb_base_page_mask(w, pte) ==
    IF RISCV_PTE_V \in pte.bits
    THEN IF pte.bits \cap RISCV_PTE_PERM_MASK = {}
         THEN CbPanic(w, pte, "assert perm")
         ELSE CbReply("HALT", pte,
                [w EXCEPT !.qpaddr = IF w.wantP
                                     THEN BitOr(RISCV_PTE_PPN(pte),
                                                BitAndMask(w.vaddr, page_mask_per_level(0)))
                                     ELSE @,
                          !.qflags = IF w.wantF THEN pte_flags_to_mmu_flags(pte) ELSE @,
                          !.err = NO_ERROR])
    ELSE CbReply("HALT", pte, [w EXCEPT !.err = ERR_NOT_FOUND])

\* query_cb (mmu.cpp 402-432)
query_cb(w, pte) ==
    IF RISCV_PTE_V \in pte.bits
    THEN IF pte.bits \cap RISCV_PTE_PERM_MASK = {}
         THEN CbPanic(w, pte, "assert perm")
         ELSE CbReply("HALT", pte,
                [w EXCEPT !.qpaddr = IF w.wantP
                                     THEN BitOr(RISCV_PTE_PPN(pte),
                                                BitAndMask(w.vaddr, page_mask_per_level(w.level)))
                                     ELSE @,
                          !.qflags = IF w.wantF THEN pte_flags_to_mmu_flags(pte) ELSE @,
                          !.err = NO_ERROR])
    ELSE CbReply("HALT", pte, [w EXCEPT !.err = ERR_NOT_FOUND])

callback(w, pte) ==
    CASE w.cb = "map"   -> map_cb(w, pte)
      [] w.cb = "unmap" -> unmap_cb(w, pte)
      [] w.cb = "query" -> query_cb(w, pte)

\* mutant: a store that leaves a child table with no valid entry also clears
\* the link to it
StorePte_reclaim_empty(w, pte) ==
    LET stored == [w.mem EXCEPT ![w.tbl][w.index] = pte]
        empty == w.tbl # w.root /\ \A s \in Slots : RISCV_PTE_V \notin stored[w.tbl][s].bits
    IN [w EXCEPT !.mem = IF ~empty THEN stored
                         ELSE [t \in DOMAIN stored |->
                                 [s \in Slots |->
                                    IF stored[t][s] = [ppn |-> w.tbl, bits |-> {RISCV_PTE_V}]
                                    THEN ZeroPte ELSE stored[t][s]]],
                 !.stores = @ + 1]

\* *ptep = pte (stores counts the write-backs of the call)
StorePte(w, pte) == [w EXCEPT !.mem[w.tbl][w.index] = pte, !.stores = @ + 1]

\* mutant: the link is written before the result of alloc_ptable is tested
WalkAllocPt_link_before_check(c) ==
    LET a == alloc_ptable(c)
        linked == StorePte(a.w, [ppn  |-> RISCV_PTE_PPN_TO_PTE(a.pa),
                                 bits |-> {RISCV_PTE_V}])
    IN IF ~a.ok THEN ReturnW(linked, ERR_NO_MEMORY)
       ELSE WalkDescend(linked, paddr_to_kvaddr(a.pa))

\* mutant: after the link is stored the walk starts again from the top
WalkAllocPt_restart_after_link(c) ==
    LET a == alloc_ptable(c) IN
    IF ~a.ok THEN ReturnW(c, ERR_NO_MEMORY)
    ELSE WalkRestart(StorePte(a.w, [ppn  |-> RISCV_PTE_PPN_TO_PTE(a.pa),
                                    bits |-> {RISCV_PTE_V}]))

\* mutant: the new table is entered but the link to it is never written
WalkAllocPt_link_not_stored(c) ==
    LET a == alloc_ptable(c) IN
    IF ~a.ok THEN ReturnW(c, ERR_NO_MEMORY)
    ELSE WalkDescend(a.w, paddr_to_kvaddr(a.pa))

\* case ALLOC_PT of the reply switch (mmu.cpp 288-306)
WalkAllocPt(c) ==
    LET a == alloc_ptable(c) IN
    IF ~a.ok THEN ReturnW(c, ERR_NO_MEMORY)
    ELSE WalkDescend(
            StorePte(a.w, [ppn  |-> RISCV_PTE_PPN_TO_PTE(a.pa),
                           bits |-> {RISCV_PTE_V}]),
            paddr_to_kvaddr(a.pa))

\* mutant: the walker does not test for a link, every entry goes to the callback
WalkStep_no_link_test(w) ==
    LET pte == w.mem[w.tbl][w.index]
        r == callback(w, pte)
        c == [r.w EXCEPT !.calls = @ + 1, !.replies = @ \cup {r.reply}]
    IN CASE r.reply = "PANIC" -> PanicW(c, c.why)
         [] r.reply = "HALT" -> ReturnW(c, c.err)
         [] r.reply = "RESTART" -> WalkRestart(c)
         [] r.reply = "COMMIT_AND_RESTART" -> WalkRestart(StorePte(c, r.pte))
         [] r.reply = "COMMIT_AND_HALT" -> ReturnW(StorePte(c, r.pte), c.err)
         [] r.reply = "ALLOC_PT" -> WalkAllocPt(c)

\* one iteration of the for(;;) of riscv_pt_walk (mmu.cpp 249-312)
WalkStep(w) ==
    LET pte == w.mem[w.tbl][w.index] IN
    IF RISCV_PTE_V \in pte.bits /\ pte.bits \cap RISCV_PTE_PERM_MASK = {}
    THEN WalkDescend(w, paddr_to_kvaddr(RISCV_PTE_PPN(pte)))
    ELSE LET r == callback(w, pte)
                 c == [r.w EXCEPT !.calls = @ + 1, !.replies = @ \cup {r.reply}]
         IN CASE r.reply = "PANIC" -> PanicW(c, c.why)
              [] r.reply = "HALT" -> ReturnW(c, c.err)
              [] r.reply = "RESTART" -> WalkRestart(c)
              [] r.reply = "COMMIT_AND_RESTART" -> WalkRestart(StorePte(c, r.pte))
              [] r.reply = "COMMIT_AND_HALT" -> ReturnW(StorePte(c, r.pte), c.err)
              [] r.reply = "ALLOC_PT" -> WalkAllocPt(c)

RECURSIVE WalkLoop(_)
WalkLoop(w) == IF w.pc # "loop" THEN w ELSE WalkLoop(WalkStep(w))

\* riscv_pt_walk(aspace, vaddr, callback) (mmu.cpp 236-314)
riscv_pt_walk(w) == WalkLoop(WalkRestart(w))

(***************************************************************************)
(* The public entry points, as functions from the state they read to the   *)
(* state they leave and the status they return.                            *)
(***************************************************************************)
\* values the caller's *paddr and *flags hold before arch_mmu_query
UnsetPaddr == 0 - 1
UnsetFlags == {"unset"}

NewWalker(cb, asp, m, fr, budget, vaddr, paddr, count, flags, wantP, wantF) ==
    [cb |-> cb, root |-> asp.pt_virt, aflags |-> asp.flags,
     mem |-> m, free |-> fr, budget |-> budget,
     vaddr |-> vaddr, paddr |-> paddr, count |-> count, flags |-> flags,
     wantP |-> wantP, wantF |-> wantF,
     qpaddr |-> UnsetPaddr, qflags |-> UnsetFlags,
     level |-> RISCV_MMU_PT_LEVELS - 1, index |-> 0, tbl |-> asp.pt_virt,
     pc |-> "loop", ret |-> NO_ERROR, err |-> NO_ERROR, why |-> "", calls |-> 0, stores |-> 0,
     replies |-> {}]

\* mutant: only the upper end of the space is tested
OutOfAspace_upper_only(asp, vaddr) ==
    vaddr > WordSub(WordAdd(asp.base, asp.size), 1)

\* _vaddr < aspace->base || _vaddr > aspace->base + aspace->size - 1
OutOfAspace(asp, vaddr) ==
    vaddr < asp.base \/ vaddr > WordSub(WordAdd(asp.base, asp.size), 1)

\* what a call leaves behind: walked says whether riscv_pt_walk ran, and the
\* w* fields are the walker's locals when it stopped
CallResult(w, walked, status, flush) ==
    [ret |-> status, mem |-> w.mem, free |-> w.free, walked |-> walked,
     calls |-> w.calls, stores |-> w.stores, replies |-> w.replies, why |-> w.why,
     wvaddr |-> w.vaddr, wcount |-> w.count, wtbl |-> w.tbl,
     windex |-> w.index, wlevel |-> w.level,
     qpaddr |-> w.qpaddr, qflags |-> w.qflags, flush |-> flush]

\* mutant: the range is tested before the count
arch_mmu_map_range_check_first(asp, m, fr, budget, vaddr, paddr, count, flags) ==
    LET w0 == NewWalker("map", asp, m, fr, budget, vaddr, paddr, count, flags, FALSE, FALSE) IN
    IF OutOfAspace(asp, vaddr) THEN CallResult(w0, FALSE, ERR_OUT_OF_RANGE, <<>>)
    ELSE IF count = 0 THEN CallResult(w0, FALSE, NO_ERROR, <<>>)
    ELSE LET w == riscv_pt_walk(w0) IN CallResult(w, TRUE, w.ret, <<>>)

\* arch_mmu_map (mmu.cpp 317-387)
arch_mmu_map(asp, m, fr, budget, vaddr, paddr, count, flags) ==
    LET w0 == NewWalker("map", asp, m, fr, budget, vaddr, paddr, count, flags, FALSE, FALSE) IN
    IF count = 0 THEN CallResult(w0, FALSE, NO_ERROR, <<>>)
    ELSE IF OutOfAspace(asp, vaddr) THEN CallResult(w0, FALSE, ERR_OUT_OF_RANGE, <<>>)
    ELSE LET w == riscv_pt_walk(w0) IN CallResult(w, TRUE, w.ret, <<>>)

\* arch_mmu_query (mmu.cpp 389-435)
arch_mmu_query(asp, m, vaddr, wantP, wantF) ==
    LET w0 == NewWalker("query", asp, m, {}, 0, vaddr, 0, 0, {}, wantP, wantF) IN
    IF OutOfAspace(asp, vaddr) THEN CallResult(w0, FALSE, ERR_OUT_OF_RANGE, <<>>)
    ELSE LET w == riscv_pt_walk(w0) IN CallResult(w, TRUE, w.ret, <<>>)

\* mutant: the flush is given the walker's cursor, not the caller's range
arch_mmu_unmap_flush_cursor(asp, m, vaddr, count) ==
    LET w0 == NewWalker("unmap", asp, m, {}, 0, vaddr, 0, count, {}, FALSE, FALSE) IN
    IF count = 0 THEN CallResult(w0, FALSE, NO_ERROR, <<>>)
    ELSE IF OutOfAspace(asp, vaddr) THEN CallResult(w0, FALSE, ERR_OUT_OF_RANGE, <<>>)
    ELSE LET w == riscv_pt_walk(w0) IN
         IF w.pc = "panic" THEN CallResult(w, TRUE, PANIC, <<>>)
         ELSE CallResult(w, TRUE, w.ret, <<w.vaddr, w.count>>)

\* mutant: the start address is not tested against the space
arch_mmu_unmap_no_range_check(asp, m, vaddr, count) ==
    LET w0 == NewWalker("unmap", asp, m, {}, 0, vaddr, 0, count, {}, FALSE, FALSE) IN
    IF count = 0 THEN CallResult(w0, FALSE, NO_ERROR, <<>>)
    ELSE LET w == riscv_pt_walk(w0) IN
         IF w.pc = "panic" THEN CallResult(w, TRUE, PANIC, <<>>)
         ELSE CallResult(w, TRUE, w.ret, <<vaddr, count>>)

\* arch_mmu_unmap (mmu.cpp 437-496); flush is the argument pair handed to
\* riscv_tlb_flush_vma_range, <<>> when the routine is not called
arch_mmu_unmap(asp, m, vaddr, count) ==
    LET w0 == NewWalker("unmap", asp, m, {}, 0, vaddr, 0, count, {}, FALSE, FALSE) IN
    IF count = 0 THEN CallResult(w0, FALSE, NO_ERROR, <<>>)
    ELSE IF OutOfAspace(asp, vaddr) THEN CallResult(w0, FALSE, ERR_OUT_OF_RANGE, <<>>)
    ELSE LET w == riscv_pt_walk(w0) IN
         IF w.pc = "panic" THEN CallResult(w, TRUE, PANIC, <<>>)
         ELSE CallResult(w, TRUE, w.ret, <<vaddr, count>>)

\* an arch_aspace_t nobody has initialised: static storage, all zero
NullPt == 0
NullAspace == [flags |-> {}, base |-> 0, size |-> 0, pt_virt |-> NullPt]

\* arch_mmu_init_aspace (mmu.cpp 189-215): the status it returns (PANIC when
\* it does not return) and the descriptor it leaves
\* mutant: every descriptor gets a root table of its own from the allocator
arch_mmu_init_aspace_own_root(asp, base, size, flags) ==
    IF ~(size > PAGE_SIZE)
    THEN [ret |-> PANIC, why |-> "assert size", aspace |-> asp]
    ELSE IF ~(WordSub(WordAdd(base, size), 1) > base)
    THEN [ret |-> PANIC, why |-> "assert wrap", aspace |-> asp]
    ELSE LET a == [asp EXCEPT !.flags = flags] IN
         IF ARCH_ASPACE_FLAG_KERNEL \in flags
         THEN IF base # KERNEL_ASPACE_BASE
              THEN [ret |-> PANIC, why |-> "assert base", aspace |-> a]
              ELSE IF size # KERNEL_ASPACE_SIZE
              THEN [ret |-> PANIC, why |-> "assert size", aspace |-> a]
              ELSE [ret |-> NO_ERROR, why |-> "",
                    aspace |-> [a EXCEPT !.base = base, !.size = size,
                                         !.pt_virt = IF asp.pt_virt = NullPt
                                                     THEN RootPpn + 1 ELSE RootPpn]]
         ELSE [ret |-> PANIC, why |-> "unimplemented", aspace |-> a]

arch_mmu_init_aspace(asp, base, size, flags) ==
    IF ~(size > PAGE_SIZE)
    THEN [ret |-> PANIC, why |-> "assert size", aspace |-> asp]
    ELSE IF ~(WordSub(WordAdd(base, size), 1) > base)
    THEN [ret |-> PANIC, why |-> "assert wrap", aspace |-> asp]
    ELSE LET a == [asp EXCEPT !.flags = flags] IN
         IF ARCH_ASPACE_FLAG_KERNEL \in flags
         THEN IF base # KERNEL_ASPACE_BASE
              THEN [ret |-> PANIC, why |-> "assert base", aspace |-> a]
              ELSE IF size # KERNEL_ASPACE_SIZE
              THEN [ret |-> PANIC, why |-> "assert size", aspace |-> a]
              ELSE [ret |-> NO_ERROR, why |-> "",
                    aspace |-> [a EXCEPT !.base = base, !.size = size,
                                         !.pt_virt = RootPpn]]
         ELSE \* PANIC_UNIMPLEMENTED
              [ret |-> PANIC, why |-> "unimplemented", aspace |-> a]

(***************************************************************************)
(* Translation caches.  tlb[h] is the set of virtual page numbers hart h   *)
(* holds a cached translation for; pending[h] the pages of the range-fence *)
(* requests the firmware has accepted for h and h has not yet executed.    *)
(***************************************************************************)
Harts == 0 .. (NumHarts - 1)

Vpn(vaddr) == vaddr \div PAGE_SIZE

\* pages of [base, base + count * PAGE_SIZE)
RangeVpns(base, count) ==
    {Vpn(WordAdd(base, i * PAGE_SIZE)) : i \in 0 .. (count - 1)}

\* sbi_rfence_vma(&hart_mask, base, size) with hart_mask = -1: the request is
\* queued for every other hart; the call returns without waiting for them
sbi_rfence_vma(pend, self, base, size) ==
    [h \in Harts |-> IF h = self THEN pend[h]
                     ELSE pend[h] \cup RangeVpns(base, size \div PAGE_SIZE)]

\* mutant: the loop does not advance base, every fence hits the first page
LocalFence_same_page(cache, base, count) ==
    IF count > 0 THEN cache \ {Vpn(base)} ELSE cache

\* the while loop of sfence.vma on the calling hart (mmu.cpp 108-112)
RECURSIVE LocalFence(_, _, _)
LocalFence(cache, base, count) ==
    IF count > 0
    THEN LocalFence(cache \ {Vpn(base)}, WordAdd(base, PAGE_SIZE), count - 1)
    ELSE cache

\* the operands of the sfence.vma instructions the while loop executes, in
\* order (mmu.cpp 108-112)
RECURSIVE LocalFenceAddrs(_, _)
LocalFenceAddrs(base, count) ==
    IF count > 0
    THEN <<base>> \o LocalFenceAddrs(WordAdd(base, PAGE_SIZE), count - 1)
    ELSE <<>>

\* ulong hart_mask = -1: every hart's bit is set
AllHartsMask == Harts

\* mutant: the broadcast is given the length in pages, not in bytes
riscv_tlb_flush_vma_range_size_in_pages(t, pend, self, base, count) ==
    IF count = 0 THEN [tlb |-> t, pending |-> pend, rfences |-> <<>>, sfences |-> <<>>]
    ELSE [tlb |-> [t EXCEPT ![self] = LocalFence(@, base, count)],
          pending |-> sbi_rfence_vma(pend, self, base, count),
          rfences |-> <<[hart_mask |-> AllHartsMask, base |-> base, size |-> count]>>,
          sfences |-> LocalFenceAddrs(base, count)]

\* riscv_tlb_flush_vma_range (mmu.cpp 98-113) run by hart self; rfences are
\* the calls of sbi_rfence_vma it makes, sfences the local fences it executes
riscv_tlb_flush_vma_range(t, pend, self, base, count) ==
    IF count = 0 THEN [tlb |-> t, pending |-> pend, rfences |-> <<>>, sfences |-> <<>>]
    ELSE [tlb |-> [t EXCEPT ![self] = LocalFence(@, base, count)],
          pending |-> sbi_rfence_vma(pend, self, base, count * PAGE_SIZE),
          rfences |-> <<[hart_mask |-> AllHartsMask, base |-> base,
                         size |-> count * PAGE_SIZE]>>,
          sfences |-> LocalFenceAddrs(base, count)]

(***************************************************************************)
(* The satp register and ASID discovery.  satp is the record               *)
(* [mode, asid, ppn] of its three fields; the ASID field, like the flag    *)
(* bits of an entry, is the set of its bit positions that are 1.  The hart *)
(* implements the ASID bits of impl: the others are tied to zero, whatever *)
(* is written.                                                             *)
(***************************************************************************)
AsidBits == 0 .. (RISCV_SATP_ASID_SIZE - 1)
RISCV_SATP_ASID_MASK == AsidBits
RISCV_SATP_MODE_NONE == "bare"
RISCV_SATP_MODE_SV == "sv"
SatpModes == {RISCV_SATP_MODE_NONE, RISCV_SATP_MODE_SV}

riscv_csr_read(cur) == cur

\* csrw satp: the unimplemented ASID bits do not stick
riscv_csr_write(impl, val) == [val EXCEPT !.asid = @ \cap impl]

\* mutant: the register is left with the probe value
riscv_early_mmu_init_no_restore(cur, impl) ==
    LET satp_orig == riscv_csr_read(cur)
        probe == [satp_orig EXCEPT !.asid = @ \cup RISCV_SATP_ASID_MASK]
        written == riscv_csr_write(impl, probe)
    IN [satp |-> written,
        riscv_asid_mask |-> riscv_csr_read(written).asid \cap RISCV_SATP_ASID_MASK]

\* mutant: the mask is read before the all-ones value is written
riscv_early_mmu_init_read_before_write(cur, impl) ==
    LET satp_orig == riscv_csr_read(cur)
        probe == [satp_orig EXCEPT !.asid = @ \cup RISCV_SATP_ASID_MASK]
        written == riscv_csr_write(impl, probe)
    IN [satp |-> riscv_csr_write(impl, satp_orig),
        riscv_asid_mask |-> riscv_csr_read(cur).asid \cap RISCV_SATP_ASID_MASK]

\* riscv_early_mmu_init (mmu.cpp 57-67): the register and the mask it leaves
riscv_early_mmu_init(cur, impl) ==
    LET satp_orig == riscv_csr_read(cur)
        probe == [satp_orig EXCEPT !.asid = @ \cup RISCV_SATP_ASID_MASK]
        written == riscv_csr_write(impl, probe)
    IN [satp |-> riscv_csr_write(impl, satp_orig),
        riscv_asid_mask |-> riscv_csr_read(written).asid \cap RISCV_SATP_ASID_MASK]

IS_PAGE_ALIGNED(pa) == pa % PAGE_SIZE = 0

\* riscv_set_satp (mmu.cpp 75-96): asid & riscv_asid_mask is nonzero exactly
\* when the two have a bit in common
riscv_set_satp(cur, mask, impl, asid, pt) ==
    IF asid \cap mask = {}
    THEN [ret |-> PANIC, why |-> "assert asid", satp |-> cur]
    ELSE IF ~IS_PAGE_ALIGNED(pt)
    THEN [ret |-> PANIC, why |-> "assert aligned", satp |-> cur]
    ELSE [ret |-> NO_ERROR, why |-> "",
          satp |-> riscv_csr_write(impl, [mode |-> RISCV_SATP_MODE_SV,
                                          asid |-> asid,
                                          ppn  |-> pt \div PAGE_SIZE])]

(***************************************************************************)
(* The AHCI port (dev/block/ahci, class ahci_port).  A 32-bit bitmap is    *)
(* the set of command slots whose bit is set.  The port record holds the   *)
(* object's members, the device's registers and three tallies:             *)
(*   PxCI, PxSACT  command issue and active registers                      *)
(*   PxIS          some command-completion bit of interrupt status is set  *)
(*   lock_         the port spinlock is held                               *)
(*   in_irq        irq_handler is between taking and dropping the lock     *)
(*   cmd_list_, cmd_table_   per slot, how often header and table were     *)
(*                 written                                                 *)
(*   wild          a store went outside the port's command memory          *)
(*   fault         the machine stopped (trap or failed DEBUG_ASSERT)       *)
(*   queued, completed, signals   per slot: commands kicked, commands the  *)
(*                 device finished, calls of event_signal                  *)
(***************************************************************************)
CmdSlots == 0 .. (CMD_COUNT - 1)
Threads == 0 .. (NumThreads - 1)

INT_NO_RESCHEDULE == "INT_NO_RESCHEDULE"
INT_RESCHEDULE == "INT_RESCHEDULE"

\* the constructor: every event unsignalled, nothing pending (part_003 21-25,
\* part_005 50-61); the registers as probe leaves them
NewPort ==
    [PxCI |-> {}, PxSACT |-> {}, PxIS |-> FALSE,
     lock_ |-> FALSE, in_irq |-> FALSE,
     cmd_pending_ |-> {},
     cmd_complete_event_ |-> [s \in CmdSlots |-> FALSE],
     cmd_list_ |-> [s \in CmdSlots |-> 0],
     cmd_table_ |-> [s \in CmdSlots |-> 0],
     wild |-> FALSE, fault |-> FALSE,
     queued |-> [s \in CmdSlots |-> 0],
     completed |-> [s \in CmdSlots |-> 0],
     signals |-> [s \in CmdSlots |-> 0],
     irq_ret |-> INT_NO_RESCHEDULE]

\* find_free_cmdslot (part_003 148-163): __builtin_ffs(~all_slots) - 1 is the
\* lowest clear bit
find_free_cmdslot(p) ==
    LET all_slots == p.PxSACT \cup p.PxCI IN
    IF all_slots = CmdSlots THEN -1
    ELSE MinOf(CmdSlots \ all_slots)

\* 1U << slot: for slot = -1 the shift is undefined and may give any bitmap
\* (a shift instruction that masks its count gives the top bit, one that
\* does not gives 0)
ShiftOutcomes(slot) ==
    IF slot \in CmdSlots THEN {{slot}} ELSE SUBSET CmdSlots

\* queue_command between taking and dropping the lock (part_003 174-219).
\* sh is what 1U << slot gave and trap says whether the stores through
\* cmd_table_ptr(-1) and cmd_list_[-1] stop the machine.  PxCI is written
\* with one bit and the device sets the bits written as 1.
queue_command(p, sh, trap) ==
    LET slot == find_free_cmdslot(p)
        p1 == [p EXCEPT !.PxIS = FALSE]
    IN IF slot \in CmdSlots
       THEN [port |-> [p1 EXCEPT !.cmd_table_[slot] = @ + 1,
                                 !.cmd_list_[slot] = @ + 1,
                                 !.cmd_pending_ = @ \cup sh,
                                 !.PxCI = @ \cup sh,
                                 !.queued[slot] = @ + 1],
             slot |-> slot, err |-> NO_ERROR]
       ELSE IF trap
       THEN [port |-> [p1 EXCEPT !.wild = TRUE, !.fault = TRUE],
             slot |-> slot, err |-> PANIC]
       ELSE [port |-> [p1 EXCEPT !.wild = TRUE,
                                 !.cmd_pending_ = @ \cup sh,
                                 !.PxCI = @ \cup sh],
             slot |-> slot, err |-> NO_ERROR]

\* mutant: every pending slot is taken as complete, whatever PxCI says
irq_handler_ignores_ci(p) ==
    LET cmd_complete_bitmap == p.cmd_pending_ IN
    [port |-> [p EXCEPT !.cmd_pending_ = @ \ cmd_complete_bitmap,
                        !.signals = [s \in CmdSlots |->
                                       IF s \in cmd_complete_bitmap
                                       THEN @[s] + 1 ELSE @[s]],
                        !.PxIS = FALSE,
                        !.irq_ret = IF cmd_complete_bitmap = {}
                                    THEN INT_NO_RESCHEDULE ELSE INT_RESCHEDULE],
     signalled |-> cmd_complete_bitmap]

\* irq_handler between taking and dropping the lock (part_003 235-268):
\* signalled is the set of slots whose event got event_signal
irq_handler(p) ==
    LET cmd_complete_bitmap == p.cmd_pending_ \ p.PxCI IN
    [port |-> [p EXCEPT !.cmd_pending_ = @ \ cmd_complete_bitmap,
                        !.signals = [s \in CmdSlots |->
                                       IF s \in cmd_complete_bitmap
                                       THEN @[s] + 1 ELSE @[s]],
                        !.PxIS = FALSE,
                        !.irq_ret = IF cmd_complete_bitmap = {}
                                    THEN INT_NO_RESCHEDULE ELSE INT_RESCHEDULE],
     signalled |-> cmd_complete_bitmap]

\* event_signal on an event made with EVENT_FLAG_AUTOUNSIGNAL: one waiting
\* thread is released and the event stays unsignalled, or nobody waits and
\* the event becomes signalled
event_signal(signaled, woke) == IF woke THEN signaled ELSE TRUE

\* event_wait on such an event: a signalled event is consumed and the call
\* returns, an unsignalled one blocks the caller
event_wait(signaled) == [blocked |-> ~signaled, signaled |-> FALSE]

\* a thread that has not called yet
IdleThread == [pc |-> "idle", slot |-> 0, err |-> NO_ERROR]

(***************************************************************************)
(* State.                                                                  *)
(***************************************************************************)
VARIABLES
    aspace,     \* the arch_aspace_t the kernel uses
    mem,        \* table pages: ppn -> slot -> entry
    free,       \* pool pages pmm_alloc_page has not handed out
    tlb,        \* per hart: cached virtual pages
    pending,    \* per hart: fence requests accepted, not yet executed
    last,       \* the most recent call: arguments, status, walker locals
    halted,     \* a panic stopped the machine
    nops,       \* calls made so far
    satp,       \* the satp register of the boot hart
    riscv_asid_mask,    \* static ulong riscv_asid_mask
    asid_impl,  \* the ASID bits the boot hart implements
    inits,      \* runs of riscv_early_mmu_init so far
    mapw,       \* the walker of a Map call in progress
    qryw,       \* the walker of a Query call in progress
    curw,       \* the walker of the call a hart is executing step by step
    port,       \* the ahci_port object and its device's registers
    thr         \* per thread: where it is in queue_command / wait_for_completion

vars == <<aspace, mem, free, tlb, pending, last, halted, nops,
          satp, riscv_asid_mask, asid_impl, inits, mapw, qryw, curw, port, thr>>

\* the state of the AHCI port and of the threads using it
ahcivars == <<port, thr>>
\* the state of the page tables and of the harts
mmuvars == <<aspace, mem, free, tlb, pending, last, halted, nops,
             satp, riscv_asid_mask, asid_impl, inits, mapw, qryw, curw>>

\* what the calls on a bound address space leave alone
bootvars == <<satp, riscv_asid_mask, asid_impl, inits>>
walkvars == <<mapw, qryw, curw>>

\* no call in progress
NoWalk == [pc |-> "none"]

\* satp as start.S leaves it: translation on, ASID 0, the kernel root table
BootSatp == [mode |-> RISCV_SATP_MODE_SV, asid |-> {}, ppn |-> RootPpn]

\* a large-page leaf of the boot-time mapping, in the last root slot
BootSlot == RISCV_MMU_PT_ENTRIES - 1
BootPte ==
    [ppn  |-> RISCV_MMU_PT_ENTRIES ^ (RISCV_MMU_PT_LEVELS - 1),
     bits |-> {RISCV_PTE_V, RISCV_PTE_R, RISCV_PTE_W, RISCV_PTE_X,
               RISCV_PTE_A, RISCV_PTE_D, RISCV_PTE_G}]

KernelAspace ==
    [flags |-> {ARCH_ASPACE_FLAG_KERNEL}, base |-> KERNEL_ASPACE_BASE,
     size |-> KERNEL_ASPACE_SIZE, pt_virt |-> RootPpn]

(***************************************************************************)
(* Inputs.  The window is four pages of the kernel space that straddle the *)
(* boundary between two level-0 tables.                                    *)
(***************************************************************************)
WinPages == (RISCV_MMU_PT_ENTRIES - 2) .. (RISCV_MMU_PT_ENTRIES + 1)
WinVAddr(k) == KERNEL_ASPACE_BASE + k * PAGE_SIZE
WinVAddrs == {WinVAddr(k) : k \in WinPages}
\* outside the space, with the table indices of the first window page
AliasVAddr == WordSub(WinVAddr(RISCV_MMU_PT_ENTRIES - 2), 2 ^ CanonBits)
\* second page of the boot-time large page
BootVAddr ==
    KERNEL_ASPACE_BASE + PAGE_SIZE
    + (BootSlot - (RISCV_MMU_PT_ENTRIES \div 2))
        * page_size_per_level(RISCV_MMU_PT_LEVELS - 1)
VAddrs == WinVAddrs \cup {AliasVAddr, BootVAddr}
PAddrs == {(PoolSize + 4) * PAGE_SIZE, (PoolSize + 8) * PAGE_SIZE}
Counts == 0 .. MaxCount
FlagSets == SUBSET MmuFlags
Budgets == {0, PoolSize - 1, PoolSize}
Offsets == {0, PAGE_SIZE - 1}

NoCall ==
    [op |-> "none", hart |-> 0, vaddr |-> 0, paddr |-> 0, count |-> 0,
     flags |-> {}, wantP |-> FALSE, wantF |-> FALSE,
     r |-> CallResult(NewWalker("none", KernelAspace, <<>>, {}, 0, 0, 0, 0, {}, FALSE, FALSE),
                      FALSE, NO_ERROR, <<>>)]

Init ==
    /\ aspace = KernelAspace
    /\ \E boot \in BOOLEAN :
         mem = [p \in TablePpns |->
                  IF p = RootPpn
                  THEN [i \in Slots |-> IF boot /\ i = BootSlot THEN BootPte ELSE ZeroPte]
                  ELSE JunkTable]
    /\ free = PoolPpns
    /\ tlb = [h \in Harts |-> {}]
    /\ pending = [h \in Harts |-> {}]
    /\ last = NoCall
    /\ halted = FALSE
    /\ nops = 0
    /\ satp = BootSatp
    /\ riscv_asid_mask = {}
    /\ asid_impl = AsidBits
    /\ inits = 0
    /\ mapw = NoWalk
    /\ qryw = NoWalk
    /\ curw = NoWalk
    /\ port = NewPort
    /\ thr = [t \in Threads |-> IdleThread]

\* the result keeps the memory only in mem
Strip(r) == [r EXCEPT !.mem = <<>>, !.free = {}]

Called(op, h, vaddr, paddr, count, flags, wantP, wantF, r) ==
    /\ last' = [op |-> op, hart |-> h, vaddr |-> vaddr, paddr |-> paddr,
                count |-> count, flags |-> flags, wantP |-> wantP,
                wantF |-> wantF, r |-> Strip(r)]
    /\ halted' = (r.ret = PANIC)
    /\ nops' = nops + 1

Map(vaddr, paddr, count, flags, budget) ==
    /\ ~halted /\ nops < MaxOps
    /\ LET r == arch_mmu_map(aspace, mem, free, budget, vaddr, paddr, count, flags) IN
         /\ mem' = r.mem
         /\ free' = r.free
         /\ Called("map", 0, vaddr, paddr, count, flags, FALSE, FALSE, r)
    /\ UNCHANGED <<ahcivars, aspace, tlb, pending, bootvars, walkvars>>

Unmap(h, vaddr, count) ==
    /\ ~halted /\ nops < MaxOps
    /\ LET r == arch_mmu_unmap(aspace, mem, vaddr, count)
           f == IF r.flush = <<>>
                THEN [tlb |-> tlb, pending |-> pending, rfences |-> <<>>, sfences |-> <<>>]
                ELSE riscv_tlb_flush_vma_range(tlb, pending, h, r.flush[1], r.flush[2])
       IN
         /\ mem' = r.mem
         /\ tlb' = f.tlb
         /\ pending' = f.pending
         /\ Called("unmap", h, vaddr, 0, count, {}, FALSE, FALSE,
                   r @@ [rfences |-> f.rfences, sfences |-> f.sfences])
    /\ UNCHANGED <<ahcivars, aspace, free, bootvars, walkvars>>

Query(vaddr, wantP, wantF) ==
    /\ ~halted /\ nops < MaxOps
    /\ LET r == arch_mmu_query(aspace, mem, vaddr, wantP, wantF) IN
         /\ mem' = r.mem
         /\ Called("query", 0, vaddr, 0, 0, {}, wantP, wantF, r)
    /\ UNCHANGED <<ahcivars, aspace, free, tlb, pending, bootvars, walkvars>>

\* the hardware walker of hart h translates vaddr and caches the translation
TlbFill(h, vaddr) ==
    /\ ~halted
    /\ arch_mmu_query(aspace, mem, vaddr, FALSE, FALSE).ret = NO_ERROR
    /\ Vpn(vaddr) \notin tlb[h]
    /\ tlb' = [tlb EXCEPT ![h] = @ \cup {Vpn(vaddr)}]
    /\ UNCHANGED <<ahcivars, aspace, mem, free, pending, last, halted, nops, bootvars, walkvars>>

\* hart h executes the range fences the firmware queued for it
FenceRetire(h) ==
    /\ pending[h] # {}
    /\ tlb' = [tlb EXCEPT ![h] = @ \ pending[h]]
    /\ pending' = [pending EXCEPT ![h] = {}]
    /\ UNCHANGED <<ahcivars, aspace, mem, free, last, halted, nops, bootvars, walkvars>>

(***************************************************************************)
(* Spec: the three calls made one after another by the boot hart, with     *)
(* every input of the sets above and an allocator that may fail.           *)
(***************************************************************************)
MapCall ==
    \E v \in VAddrs, p \in PAddrs, c \in Counts, f \in FlagSets, b \in Budgets :
        Map(v, p, c, f, b)

UnmapCall == \E v \in VAddrs, c \in Counts : Unmap(0, v, c)

QueryCall ==
    \E v \in VAddrs, o \in Offsets, wp \in BOOLEAN, wf \in BOOLEAN :
        Query(WordAdd(v, o), wp, wf)

Next == MapCall \/ UnmapCall \/ QueryCall

Spec == Init /\ [][Next]_vars

(***************************************************************************)
(* SpecTlb: calls from any hart, interleaved with the harts' hardware      *)
(* walkers filling their translation caches and with the harts executing   *)
(* queued fence requests.  Map uses one paddr and one set of flags.        *)
(***************************************************************************)
TlbMapCall ==
    \E v \in WinVAddrs, c \in 1 .. MaxCount :
        Map(v, (PoolSize + 4) * PAGE_SIZE, c, {}, PoolSize)

TlbUnmapCall == \E h \in Harts, v \in VAddrs, c \in Counts : Unmap(h, v, c)

TlbFillStep == \E h \in Harts, v \in WinVAddrs \cup {BootVAddr} : TlbFill(h, v)

FenceRetireStep == \E h \in Harts : FenceRetire(h)

NextTlb == TlbMapCall \/ TlbUnmapCall \/ TlbFillStep \/ FenceRetireStep

SpecTlb == Init /\ [][NextTlb]_vars

(***************************************************************************)
(* SpecConc: one Map call and one Query call run at the same time on two   *)
(* harts, after at most one earlier Map has built part of the tree.  A     *)
(* step of a call is one iteration of the for(;;) of riscv_pt_walk: it     *)
(* reads *ptep once (mmu.cpp 254) and stores to a table at most once (280, *)
(* 285, 300), each a single aligned access.  The page alloc_ptable zeroes  *)
(* is reachable by nobody until the link is stored, and smp_wmb (160)      *)
(* orders the zeroing before that store, so zeroing and linking are one    *)
(* step.  mapw and qryw hold the locals of the two walks; req holds the    *)
(* arguments of the call and, for Map, what Query gave for each page of    *)
(* the range and which pages the allocator held when the call began.       *)
(***************************************************************************)
StripW(w) == [w EXCEPT !.mem = <<>>, !.free = {}]

ConcSetup ==
    /\ nops = 0 /\ mapw.pc = "none" /\ qryw.pc = "none"
    /\ \E v \in WinVAddrs, c \in 1 .. MaxCount :
         Map(v, (PoolSize + 8) * PAGE_SIZE, c, {ARCH_MMU_FLAG_PERM_RO}, PoolSize)

\* entry of arch_mmu_map up to the first iteration (mmu.cpp 322-328, 243-247)
ConcMapBegin(vaddr, paddr, count, flags, budget) ==
    /\ ~halted /\ mapw.pc = "none"
    /\ LET w0 == NewWalker("map", aspace, <<>>, {}, budget, vaddr, paddr, count,
                            flags, FALSE, FALSE)
           req == [vaddr |-> vaddr, paddr |-> paddr, count |-> count,
                   flags |-> flags, pool |-> free,
                   pre |-> [i \in 0 .. (count - 1) |->
                              arch_mmu_query(aspace, mem, WordAdd(vaddr, i * PAGE_SIZE),
                                             TRUE, TRUE).ret]]
       IN mapw' = [req |-> req] @@
                  (IF count = 0 THEN ReturnW(w0, NO_ERROR)
                   ELSE IF OutOfAspace(aspace, vaddr) THEN ReturnW(w0, ERR_OUT_OF_RANGE)
                   ELSE WalkRestart(w0))
    /\ UNCHANGED <<ahcivars, aspace, mem, free, tlb, pending, last, halted, nops, bootvars, qryw, curw>>

\* one iteration of the walk of the Map call
ConcMapStep ==
    /\ ~halted /\ mapw.pc = "loop"
    /\ LET w == WalkStep([mapw EXCEPT !.mem = mem, !.free = free]) IN
         /\ mem' = w.mem
         /\ free' = w.free
         /\ mapw' = StripW(w)
         /\ halted' = (w.pc = "panic")
    /\ UNCHANGED <<ahcivars, aspace, tlb, pending, last, nops, bootvars, qryw, curw>>

\* entry of arch_mmu_query up to the first iteration (mmu.cpp 395-397, 243-247)
ConcQueryBegin(vaddr) ==
    /\ ~halted /\ qryw.pc = "none"
    /\ LET w0 == NewWalker("query", aspace, <<>>, {}, 0, vaddr, 0, 0, {}, TRUE, TRUE) IN
         qryw' = [req |-> [vaddr |-> vaddr]] @@
                 (IF OutOfAspace(aspace, vaddr) THEN ReturnW(w0, ERR_OUT_OF_RANGE)
                  ELSE WalkRestart(w0))
    /\ UNCHANGED <<ahcivars, aspace, mem, free, tlb, pending, last, halted, nops, bootvars, mapw, curw>>

\* one iteration of the walk of the Query call
ConcQueryStep ==
    /\ ~halted /\ qryw.pc = "loop"
    /\ LET w == WalkStep([qryw EXCEPT !.mem = mem, !.free = free]) IN
         /\ mem' = w.mem
         /\ free' = w.free
         /\ qryw' = StripW(w)
         /\ halted' = (w.pc = "panic")
    /\ UNCHANGED <<ahcivars, aspace, tlb, pending, last, nops, bootvars, mapw, curw>>

ConcMapCall ==
    \E v \in WinVAddrs, c \in 1 .. MaxCount, f \in {{}, MmuFlags}, b \in {1, PoolSize} :
        ConcMapBegin(v, (PoolSize + 4) * PAGE_SIZE, c, f, b)

ConcQueryCall ==
    \E v \in WinVAddrs, o \in Offsets : ConcQueryBegin(WordAdd(v, o))

NextConc == ConcSetup \/ ConcMapCall \/ ConcMapStep \/ ConcQueryCall \/ ConcQueryStep

SpecConc == Init /\ [][NextConc]_vars

(***************************************************************************)
(* SpecStep: the calls of Spec, made one after another by one hart, each   *)
(* executed one iteration of the for(;;) of riscv_pt_walk at a time; an    *)
(* Unmap then runs riscv_tlb_flush_vma_range, and the call returns.  curw  *)
(* holds the walker's locals; req the call's arguments, what Query gave    *)
(* for each page of the range when the call began, whether the call got    *)
(* past its entry checks, and whether it has run the TLB flush.            *)
(***************************************************************************)
StepBegin(op, h, vaddr, paddr, count, flags, budget) ==
    /\ ~halted /\ nops < MaxOps /\ curw.pc = "none"
    /\ LET w0 == NewWalker(op, aspace, <<>>, {}, budget, vaddr, paddr, count,
                            flags, TRUE, TRUE)
           early == IF op # "query" /\ count = 0 THEN NO_ERROR
                    ELSE IF OutOfAspace(aspace, vaddr) THEN ERR_OUT_OF_RANGE
                    ELSE "walk"
           req == [op |-> op, hart |-> h, vaddr |-> vaddr, paddr |-> paddr,
                   count |-> count, flags |-> flags, walked |-> early = "walk",
                   pre |-> [i \in 0 .. (count - 1) |->
                              LET q == arch_mmu_query(aspace, mem,
                                          WordAdd(vaddr, i * PAGE_SIZE), TRUE, TRUE)
                              IN <<q.ret, q.qpaddr, q.qflags>>]]
       IN curw' = [req |-> req, flushed |-> FALSE] @@
                  (IF early = "walk" THEN WalkRestart(w0) ELSE ReturnW(w0, early))
    /\ UNCHANGED <<ahcivars, aspace, mem, free, tlb, pending, last, halted, nops, bootvars,
                   mapw, qryw>>

\* one iteration of for(;;)
StepIter ==
    /\ ~halted /\ curw.pc = "loop"
    /\ LET w == WalkStep([curw EXCEPT !.mem = mem, !.free = free]) IN
         /\ mem' = w.mem
         /\ free' = w.free
         /\ curw' = StripW(w)
    /\ UNCHANGED <<ahcivars, aspace, tlb, pending, last, halted, nops, bootvars, mapw, qryw>>

\* mutant: the range is fenced before the walk has zeroed anything
StepFlush_before_walk ==
    /\ ~halted /\ curw.pc = "loop" /\ curw.req.op = "unmap"
    /\ curw.req.walked /\ ~curw.flushed
    /\ LET f == riscv_tlb_flush_vma_range(tlb, pending, curw.req.hart,
                                          curw.req.vaddr, curw.req.count) IN
         /\ tlb' = f.tlb
         /\ pending' = f.pending
    /\ curw' = [curw EXCEPT !.flushed = TRUE]
    /\ UNCHANGED <<ahcivars, aspace, mem, free, last, halted, nops, bootvars, mapw, qryw>>

\* arch_mmu_unmap after riscv_pt_walk has returned (mmu.cpp 490-493)
StepFlush ==
    /\ ~halted /\ curw.pc = "done" /\ curw.req.op = "unmap"
    /\ curw.req.walked /\ ~curw.flushed
    /\ LET f == riscv_tlb_flush_vma_range(tlb, pending, curw.req.hart,
                                          curw.req.vaddr, curw.req.count) IN
         /\ tlb' = f.tlb
         /\ pending' = f.pending
    /\ curw' = [curw EXCEPT !.flushed = TRUE]
    /\ UNCHANGED <<ahcivars, aspace, mem, free, last, halted, nops, bootvars, mapw, qryw>>

\* the call returns its status to the caller, or the panic stops the machine
StepReturn ==
    /\ ~halted /\ curw.pc \in {"done", "panic"}
    /\ (curw.pc = "done" /\ curw.req.op = "unmap" /\ curw.req.walked) => curw.flushed
    /\ Called(curw.req.op, curw.req.hart, curw.req.vaddr, curw.req.paddr,
              curw.req.count, curw.req.flags, TRUE, TRUE,
              CallResult([curw EXCEPT !.mem = mem, !.free = free], curw.req.walked,
                         curw.ret,
                         IF curw.flushed THEN <<curw.req.vaddr, curw.req.count>>
                         ELSE <<>>))
    /\ curw' = NoWalk
    /\ UNCHANGED <<ahcivars, aspace, mem, free, tlb, pending, bootvars, mapw, qryw>>

StepMapCall ==
    \E v \in VAddrs, c \in Counts, f \in {{}, MmuFlags}, b \in Budgets :
        StepBegin("map", 0, v, (PoolSize + 4) * PAGE_SIZE, c, f, b)

StepUnmapCall ==
    \E v \in VAddrs, c \in Counts : StepBegin("unmap", 0, v, 0, c, {}, 0)

StepQueryCall ==
    \E v \in VAddrs : StepBegin("query", 0, WordAdd(v, PAGE_SIZE - 1), 0, 0, {}, 0)

NextStep ==
    StepMapCall \/ StepUnmapCall \/ StepQueryCall \/ StepIter \/ StepFlush \/ StepReturn

SpecStep == Init /\ [][NextStep]_vars

\* SpecStepFair: the same calls, Map with one set of flags, made by a hart
\* that goes on executing the call it is inside
StepFairMapCall ==
    \E v \in VAddrs, c \in Counts, b \in Budgets :
        StepBegin("map", 0, v, (PoolSize + 4) * PAGE_SIZE, c, {}, b)

NextStepFair ==
    \/ StepFairMapCall \/ StepUnmapCall \/ StepQueryCall
    \/ StepIter \/ StepFlush \/ StepReturn

SpecStepFair ==
    /\ Init /\ [][NextStepFair]_vars
    /\ WF_vars(StepIter) /\ WF_vars(StepFlush) /\ WF_vars(StepReturn)

(***************************************************************************)
(* SpecInit: the descriptor starts unbound; arch_mmu_init_aspace is called *)
(* with kernel and non-kernel flags and with the kernel's and other        *)
(* ranges, and the calls that need a bound descriptor follow a successful  *)
(* one.                                                                    *)
(***************************************************************************)
InitBases == {0, KERNEL_ASPACE_BASE}
InitSizes == {PAGE_SIZE, 2 * PAGE_SIZE, KERNEL_ASPACE_SIZE}
InitFlagSets == {{}, {ARCH_ASPACE_FLAG_KERNEL}}

InitUnbound ==
    /\ aspace = NullAspace
    /\ \E boot \in BOOLEAN :
         mem = [p \in TablePpns |->
                  IF p = RootPpn
                  THEN [i \in Slots |-> IF boot /\ i = BootSlot THEN BootPte ELSE ZeroPte]
                  ELSE JunkTable]
    /\ free = PoolPpns
    /\ tlb = [h \in Harts |-> {}]
    /\ pending = [h \in Harts |-> {}]
    /\ last = NoCall
    /\ halted = FALSE
    /\ nops = 0
    /\ satp = BootSatp
    /\ riscv_asid_mask = {}
    /\ asid_impl = AsidBits
    /\ inits = 0
    /\ mapw = NoWalk
    /\ qryw = NoWalk
    /\ curw = NoWalk
    /\ port = NewPort
    /\ thr = [t \in Threads |-> IdleThread]

InitAspace(base, size, flags) ==
    /\ ~halted /\ nops < MaxOps
    /\ LET r == arch_mmu_init_aspace(aspace, base, size, flags) IN
         /\ aspace' = r.aspace
         /\ last' = [size |-> size] @@
                    [NoCall EXCEPT !.op = "init", !.vaddr = base, !.flags = flags,
                                   !.r.ret = r.ret, !.r.why = r.why]
         /\ halted' = (r.ret = PANIC)
    /\ nops' = nops + 1
    /\ UNCHANGED <<ahcivars, mem, free, tlb, pending, bootvars, walkvars>>

InitAspaceCall ==
    \E b \in InitBases, sz \in InitSizes, f \in InitFlagSets : InitAspace(b, sz, f)

\* the descriptor has been bound by a successful arch_mmu_init_aspace
Bound == aspace.pt_virt \in TablePpns

BoundMapCall == Bound /\ MapCall

BoundQueryCall == Bound /\ QueryCall

NextInit == InitAspaceCall \/ BoundMapCall \/ BoundQueryCall

SpecInit == InitUnbound /\ [][NextInit]_vars

(***************************************************************************)
(* SpecAsid: early boot.  The hart implements any subset of the ASID bits, *)
(* satp holds a value the hart can hold, and riscv_early_mmu_init runs,    *)
(* once or several times in a row.                                         *)
(***************************************************************************)
InitAsid ==
    /\ aspace = KernelAspace
    /\ mem = [p \in TablePpns |-> IF p = RootPpn THEN ZeroTable ELSE JunkTable]
    /\ free = PoolPpns
    /\ tlb = [h \in Harts |-> {}]
    /\ pending = [h \in Harts |-> {}]
    /\ last = NoCall
    /\ halted = FALSE
    /\ nops = 0
    /\ asid_impl \in SUBSET AsidBits
    /\ satp \in [mode : SatpModes, asid : SUBSET asid_impl, ppn : {0, RootPpn}]
    /\ riscv_asid_mask = {}
    /\ inits = 0
    /\ mapw = NoWalk
    /\ qryw = NoWalk
    /\ curw = NoWalk
    /\ port = NewPort
    /\ thr = [t \in Threads |-> IdleThread]

EarlyMmuInit ==
    /\ inits < MaxInits
    /\ LET r == riscv_early_mmu_init(satp, asid_impl) IN
         /\ satp' = r.satp
         /\ riscv_asid_mask' = r.riscv_asid_mask
    /\ inits' = inits + 1
    /\ UNCHANGED <<ahcivars, aspace, mem, free, tlb, pending, last, halted, nops,
                   asid_impl, walkvars>>

NextAsid == EarlyMmuInit

SpecAsid == InitAsid /\ [][NextAsid]_vars

(***************************************************************************)
(* SpecSatp: after any number of discoveries the boot hart installs        *)
(* translation roots with riscv_set_satp, for every ASID the ASID field of *)
(* satp can hold and for an aligned and an unaligned table address.        *)
(***************************************************************************)
SatpAsids == SUBSET AsidBits
SatpPts == {vm_page_to_paddr(RootPpn), vm_page_to_paddr(RootPpn) + 1}

SetSatp(asid, pt) ==
    /\ ~halted /\ nops < MaxOps
    /\ LET r == riscv_set_satp(satp, riscv_asid_mask, asid_impl, asid, pt) IN
         /\ satp' = r.satp
         \* sfence.vma zero, zero
         /\ tlb' = IF r.ret = PANIC THEN tlb ELSE [tlb EXCEPT ![0] = {}]
         /\ last' = [asid |-> asid] @@
                    [NoCall EXCEPT !.op = "set_satp", !.paddr = pt,
                                   !.r.ret = r.ret, !.r.why = r.why]
         /\ halted' = (r.ret = PANIC)
    /\ nops' = nops + 1
    /\ UNCHANGED <<ahcivars, aspace, mem, free, pending, riscv_asid_mask, asid_impl, inits,
                   walkvars>>

SetSatpCall == \E asid \in SatpAsids, pt \in SatpPts : SetSatp(asid, pt)

SatpEarlyMmuInit == ~halted /\ EarlyMmuInit

NextSatp == SatpEarlyMmuInit \/ SetSatpCall

SpecSatp == InitAsid /\ [][NextSatp]_vars

(***************************************************************************)
(* SpecRace: two harts each call arch_mmu_map for one page of the same     *)
(* address space, with nothing that keeps the two calls apart: a call may  *)
(* begin while the other is in its walk, or after it has returned.  An     *)
(* iteration of the walk is two steps, the read of *ptep (mmu.cpp 254)     *)
(* into the local pte and the rest of the iteration, which works on that   *)
(* local and stores to *ptep at most once.  pmm_alloc_page takes a page    *)
(* from the pool in one step.  mapw is the walk of hart 0, curw the walk   *)
(* of hart 1; req.overlap says the other call was in its walk when this    *)
(* one began.  The pool holds RacePoolSize pages.                          *)
(***************************************************************************)
RacePoolPpns == (RootPpn + 1) .. (RootPpn + RacePoolSize)
RaceTablePpns == {RootPpn} \cup RacePoolPpns

InitRace ==
    /\ aspace = KernelAspace
    /\ \E boot \in BOOLEAN :
         mem = [p \in RaceTablePpns |->
                  IF p = RootPpn
                  THEN [i \in Slots |-> IF boot /\ i = BootSlot THEN BootPte ELSE ZeroPte]
                  ELSE JunkTable]
    /\ free = RacePoolPpns
    /\ tlb = [h \in Harts |-> {}]
    /\ pending = [h \in Harts |-> {}]
    /\ last = NoCall
    /\ halted = FALSE
    /\ nops = 0
    /\ satp = BootSatp
    /\ riscv_asid_mask = {}
    /\ asid_impl = AsidBits
    /\ inits = 0
    /\ mapw = NoWalk
    /\ qryw = NoWalk
    /\ curw = NoWalk
    /\ port = NewPort
    /\ thr = [t \in Threads |-> IdleThread]

InWalk(w) == w.pc \in {"loop", "act"}

\* entry of arch_mmu_map up to the first iteration (mmu.cpp 322-328, 243-247)
RaceBeginW(vaddr, paddr, other) ==
    LET w0 == NewWalker("map", aspace, <<>>, {}, RacePoolSize, vaddr, paddr, 1, {},
                        FALSE, FALSE)
    IN [req |-> [vaddr |-> vaddr, paddr |-> paddr, overlap |-> InWalk(other)],
        pte |-> ZeroPte] @@
       (IF OutOfAspace(aspace, vaddr) THEN ReturnW(w0, ERR_OUT_OF_RANGE)
        ELSE WalkRestart(w0))

\* riscv_pte_t pte = *ptep
RaceReadW(w) == [w EXCEPT !.pte = mem[w.tbl][w.index], !.pc = "act"]

\* the rest of the iteration, on the value read
RaceActW(w) ==
    WalkStep([w EXCEPT !.pc = "loop",
                       !.mem = [mem EXCEPT ![w.tbl][w.index] = w.pte],
                       !.free = free])

\* the tables after the iteration: what it stored, or nothing
RaceMem(w, r) == IF r.stores # w.stores THEN r.mem ELSE mem

RaceBegin0 ==
    /\ ~halted /\ mapw.pc = "none"
    /\ \E v \in WinVAddrs : mapw' = RaceBeginW(v, (PoolSize + 4) * PAGE_SIZE, curw)
    /\ UNCHANGED <<ahcivars, aspace, mem, free, tlb, pending, last, halted, nops, bootvars,
                   qryw, curw>>

RaceBegin1 ==
    /\ ~halted /\ curw.pc = "none"
    /\ \E v \in WinVAddrs : curw' = RaceBeginW(v, (PoolSize + 8) * PAGE_SIZE, mapw)
    /\ UNCHANGED <<ahcivars, aspace, mem, free, tlb, pending, last, halted, nops, bootvars,
                   qryw, mapw>>

RaceRead0 ==
    /\ ~halted /\ mapw.pc = "loop"
    /\ mapw' = RaceReadW(mapw)
    /\ UNCHANGED <<ahcivars, aspace, mem, free, tlb, pending, last, halted, nops, bootvars,
                   qryw, curw>>

RaceRead1 ==
    /\ ~halted /\ curw.pc = "loop"
    /\ curw' = RaceReadW(curw)
    /\ UNCHANGED <<ahcivars, aspace, mem, free, tlb, pending, last, halted, nops, bootvars,
                   qryw, mapw>>

RaceAct0 ==
    /\ ~halted /\ mapw.pc = "act"
    /\ LET r == RaceActW(mapw) IN
         /\ mem' = RaceMem(mapw, r)
         /\ free' = r.free
         /\ mapw' = StripW(r)
         /\ halted' = (r.pc = "panic")
    /\ UNCHANGED <<ahcivars, aspace, tlb, pending, last, nops, bootvars, qryw, curw>>

RaceAct1 ==
    /\ ~halted /\ curw.pc = "act"
    /\ LET r == RaceActW(curw) IN
         /\ mem' = RaceMem(curw, r)
         /\ free' = r.free
         /\ curw' = StripW(r)
         /\ halted' = (r.pc = "panic")
    /\ UNCHANGED <<ahcivars, aspace, tlb, pending, last, nops, bootvars, qryw, mapw>>

NextRace ==
    RaceBegin0 \/ RaceBegin1 \/ RaceRead0 \/ RaceRead1 \/ RaceAct0 \/ RaceAct1

SpecRace == InitRace /\ [][NextRace]_vars

(***************************************************************************)
(* SpecEdge: calls made one after another whose start is the last page of  *)
(* the address space, or a page in the middle of it, with every count and  *)
(* a pool of RacePoolSize pages: past the last page the walker's address   *)
(* wraps around the address width to 0.                                    *)
(***************************************************************************)
LastVAddr == WordSub(WordAdd(KERNEL_ASPACE_BASE, KERNEL_ASPACE_SIZE), PAGE_SIZE)
EdgeVAddrs == {LastVAddr, WinVAddr(RISCV_MMU_PT_ENTRIES - 1)}

EdgeMapCall ==
    \E v \in EdgeVAddrs, p \in PAddrs, c \in Counts, f \in FlagSets,
       b \in {0, RacePoolSize} :
        Map(v, p, c, f, b)

EdgeUnmapCall == \E v \in EdgeVAddrs, c \in Counts : Unmap(0, v, c)

NextEdge == EdgeMapCall \/ EdgeUnmapCall

SpecEdge == InitRace /\ [][NextEdge]_vars

(***************************************************************************)
(* Serialized Map and Unmap calls on the window and the boot mapping, with *)
(* an allocator that does not fail: the specification for the frame of a   *)
(* successful Map and for what it takes from the allocator.                *)
(***************************************************************************)
FrameFlagSets == {{}, MmuFlags}

FrameMapCall ==
    \E v \in VAddrs \cup {LastVAddr}, p \in PAddrs, c \in Counts,
       f \in FrameFlagSets :
        Map(v, p, c, f, PoolSize)

FrameUnmapCall == \E v \in WinVAddrs, c \in Counts : Unmap(0, v, c)

NextFrame == FrameMapCall \/ FrameUnmapCall

SpecFrame == Init /\ [][NextFrame]_vars

(***************************************************************************)
(* The AHCI port in use: threads that each queue one command and wait for  *)
(* it, the device finishing commands, and the interrupt handler.  The two  *)
(* functions that take the port spinlock are two steps each, taking the    *)
(* lock and the rest, so that the device can finish a command while the    *)
(* lock is held.                                                           *)
(***************************************************************************)
\* AutoSpinLock guard(&lock_) of queue_command (part_003 172)
QueueLock(t) ==
    /\ ~port.fault /\ thr[t].pc = "idle" /\ ~port.lock_
    /\ port' = [port EXCEPT !.lock_ = TRUE]
    /\ thr' = [thr EXCEPT ![t].pc = "locked"]
    /\ UNCHANGED mmuvars

\* the rest of queue_command, to the return that drops the lock
QueueBody(t) ==
    /\ ~port.fault /\ thr[t].pc = "locked"
    /\ \E sh \in ShiftOutcomes(find_free_cmdslot(port)), trap \in BOOLEAN :
         LET r == queue_command(port, sh, trap) IN
           /\ port' = [r.port EXCEPT !.lock_ = r.port.fault]
           /\ thr' = [thr EXCEPT ![t] = [pc   |-> IF r.err = PANIC THEN "panic"
                                                                   ELSE "queued",
                                         slot |-> r.slot, err |-> r.err]]
    /\ UNCHANGED mmuvars

\* wait_for_completion(slot) with the slot queue_command gave (part_003
\* 222-228): the assertion, then event_wait
WaitForCompletion(t) ==
    /\ ~port.fault /\ thr[t].pc = "queued"
    /\ IF thr[t].slot \notin CmdSlots
       THEN /\ port' = [port EXCEPT !.fault = TRUE]
            /\ thr' = [thr EXCEPT ![t].pc = "panic", ![t].err = PANIC]
       ELSE LET w == event_wait(port.cmd_complete_event_[thr[t].slot]) IN
            /\ port' = [port EXCEPT !.cmd_complete_event_[thr[t].slot] = w.signaled]
            /\ thr' = [thr EXCEPT ![t].pc = IF w.blocked THEN "waiting" ELSE "done"]
    /\ UNCHANGED mmuvars

\* the device finishes the command in slot s: it clears the slot's bit in
\* PxCI and raises the completion interrupt
HwComplete(s) ==
    /\ ~port.fault /\ s \in port.PxCI
    /\ port' = [port EXCEPT !.PxCI = @ \ {s}, !.PxIS = TRUE,
                            !.completed[s] = @ + 1]
    /\ UNCHANGED <<mmuvars, thr>>

\* AutoSpinLockNoIrqSave guard(&lock_) of irq_handler (part_003 233)
IrqLock ==
    /\ ~port.fault /\ ~port.lock_
    /\ port' = [port EXCEPT !.lock_ = TRUE, !.in_irq = TRUE]
    /\ UNCHANGED <<mmuvars, thr>>

\* the threads blocked in event_wait on slot s
Waiters(s) == {t \in Threads : thr[t].pc = "waiting" /\ thr[t].slot = s}

\* the rest of irq_handler: every event_signal releases one of the threads
\* waiting on its event, if there is one
IrqBody ==
    /\ ~port.fault /\ port.in_irq
    /\ LET r == irq_handler(port) IN
       \E woken \in SUBSET Threads :
         /\ \A s \in r.signalled :
               IF Waiters(s) = {} THEN TRUE
               ELSE Cardinality(woken \cap Waiters(s)) = 1
         /\ \A t \in woken : \E s \in r.signalled : t \in Waiters(s)
         /\ port' = [r.port EXCEPT
                       !.lock_ = FALSE, !.in_irq = FALSE,
                       !.cmd_complete_event_ =
                          [s \in CmdSlots |->
                             IF s \in r.signalled
                             THEN event_signal(@[s], woken \cap Waiters(s) # {})
                             ELSE @[s]]]
         /\ thr' = [t \in Threads |->
                      IF t \in woken THEN [thr[t] EXCEPT !.pc = "done"] ELSE thr[t]]
    /\ UNCHANGED mmuvars

QueueLockCall == \E t \in Threads : QueueLock(t)
QueueBodyCall == \E t \in Threads : QueueBody(t)
WaitCall == \E t \in Threads : WaitForCompletion(t)
HwCompleteStep == \E s \in CmdSlots : HwComplete(s)

NextAhci ==
    QueueLockCall \/ QueueBodyCall \/ WaitCall \/ HwCompleteStep \/ IrqLock \/ IrqBody

SpecAhci == Init /\ [][NextAhci]_vars

\* as many threads as there are command slots, so that a free slot is
\* always found; the device, the handler and the threads all keep running
PairThreads == 0 .. (CMD_COUNT - 1)

PairQueueLockCall == \E t \in PairThreads : QueueLock(t)
PairQueueBodyCall == \E t \in PairThreads : QueueBody(t)
PairWaitCall == \E t \in PairThreads : WaitForCompletion(t)

NextAhciPair ==
    PairQueueLockCall \/ PairQueueBodyCall \/ PairWaitCall \/ HwCompleteStep
    \/ IrqLock \/ IrqBody

SpecAhciPair ==
    /\ Init /\ [][NextAhciPair]_vars
    /\ WF_vars(PairQueueLockCall) /\ WF_vars(PairQueueBodyCall)
    /\ WF_vars(PairWaitCall) /\ WF_vars(HwCompleteStep)
    /\ WF_vars(IrqLock) /\ WF_vars(IrqBody)

(***************************************************************************)
(* Vocabulary of the properties.                                           *)
(***************************************************************************)
\* arch_mmu_query with both output pointers given, on table memory m
QueryIn(m, vaddr) == arch_mmu_query(aspace, m, vaddr, TRUE, TRUE)

\* address of page i of the last call's range, plus a byte offset
ReqVAddr(i, o) == WordAdd(last.vaddr, i * PAGE_SIZE + o)
ReqPages == 0 .. (last.count - 1)

\* the step is a call (not a cache fill or a fence)
CallStep == nops' = nops + 1

\* the last call passed the count and range checks of map / unmap
\* the addresses of the space, enumerated: base, base + 1, ..., base + size - 1
AspaceAddrs == {WordAdd(aspace.base, off) : off \in 0..(aspace.size - 1)}

PastChecks == last.count >= 1 /\ ~OutOfAspace(aspace, last.vaddr)

\* every page of the last call's range lies in the address space
RangeInAspace == \A i \in ReqPages : ~OutOfAspace(aspace, ReqVAddr(i, 0))

(***************************************************************************)
(* C1: after a Map of count >= 1 pages whose range lies in the address     *)
(* space returns success, Query at every page i of the range, at every     *)
(* in-page offset, succeeds with paddr + i * PAGE_SIZE + offset and with   *)
(* exactly the flags passed to Map, for every subset of the three flags.   *)
(***************************************************************************)
C1_MapThenQueryRoundTrip ==
    (last.op = "map" /\ PastChecks /\ RangeInAspace /\ last.r.ret = NO_ERROR)
    => \A i \in ReqPages, o \in Offsets :
          LET q == QueryIn(mem, ReqVAddr(i, o)) IN
            /\ q.ret = NO_ERROR
            /\ q.qpaddr = WordAdd(last.paddr, i * PAGE_SIZE + o)
            /\ q.qflags = last.flags

\* a read-only, no-execute, user Map of MaxCount pages across the table
\* boundary, which had to build its tables
C1_Witness ==
    /\ last.op = "map" /\ last.r.ret = NO_ERROR
    /\ last.count = MaxCount /\ last.flags = MmuFlags
    /\ last.vaddr = WinVAddr(RISCV_MMU_PT_ENTRIES - 1)
    /\ last.r.stores > last.count

(***************************************************************************)
(* C2: a Map whose first page already holds a valid level-0 leaf returns   *)
(* ERR_ALREADY_EXISTS and leaves the tables as they were.                  *)
(***************************************************************************)
C2_MapOnMappedPageReturnsAlreadyExists ==
    [][(/\ CallStep /\ last'.op = "map" /\ last'.count >= 1
        /\ LET q == QueryIn(mem, last'.vaddr) IN q.ret = NO_ERROR /\ q.wlevel = 0)
       => (last'.r.ret = ERR_ALREADY_EXISTS /\ mem' = mem)]_vars


\* what a Query of vaddr on table memory m gives its caller
QV(m, vaddr) == LET q == QueryIn(m, vaddr) IN <<q.ret, q.qpaddr, q.qflags>>

(***************************************************************************)
(* C3: after an Unmap of count >= 1 pages whose range lies in the address  *)
(* space has returned, Query at every page of the range returns            *)
(* ERR_NOT_FOUND, whatever mixture of mapped pages and holes it held.      *)
(***************************************************************************)
C3_UnmapThenQueryNotFound ==
    (last.op = "unmap" /\ PastChecks /\ RangeInAspace /\ last.r.ret # PANIC)
    => \A i \in ReqPages, o \in Offsets :
          QueryIn(mem, ReqVAddr(i, o)).ret = ERR_NOT_FOUND

\* an Unmap of MaxCount pages that zeroed some of them and skipped the others
C3_Witness ==
    /\ last.op = "unmap" /\ last.r.ret = NO_ERROR /\ last.count = MaxCount
    /\ last.r.stores >= 1 /\ last.r.stores < last.count

(***************************************************************************)
(* C4: an Unmap that returns changes only the translations of the pages it *)
(* was asked about: Query of every other page gives what it gave before,   *)
(* Query of a page of the range gives ERR_NOT_FOUND, and every entry the   *)
(* call wrote is the level-0 entry of a page of the range.                 *)
(***************************************************************************)
C4_UnmapChangesOnlyItsRange ==
    [][(CallStep /\ last'.op = "unmap" /\ last'.r.ret # PANIC)
       => LET page(i) == WordAdd(last'.vaddr, i * PAGE_SIZE)
              pages == 0 .. (last'.count - 1)
              inRange(v) == \E i \in pages : Vpn(v) = Vpn(page(i))
              hit(t, x) == \E i \in pages :
                              LET q == QueryIn(mem, page(i)) IN
                                q.walked /\ q.wlevel = 0 /\ q.wtbl = t /\ q.windex = x
          IN /\ \A v \in VAddrs, o \in Offsets :
                    IF inRange(v) /\ last'.r.walked
                    THEN OutOfAspace(aspace, v)
                         \/ QueryIn(mem', WordAdd(v, o)).ret = ERR_NOT_FOUND
                    ELSE QV(mem', WordAdd(v, o)) = QV(mem, WordAdd(v, o))
             /\ \A t \in TablePpns, x \in Slots :
                    mem'[t][x] # mem[t][x] => hit(t, x)]_vars

\* the first page of a mapping was unmapped and the page after it still maps
C4_Witness ==
    /\ last.op = "unmap" /\ last.r.ret = NO_ERROR
    /\ last.count = 1 /\ last.r.stores = 1
    /\ QueryIn(mem, ReqVAddr(1, 0)).ret = NO_ERROR

(***************************************************************************)
(* C5: an Unmap of count >= 1 pages in the address space none of which is  *)
(* mapped (every walk stops on an invalid entry, at whatever level)        *)
(* returns NO_ERROR, and Query of each of its pages gives ERR_NOT_FOUND    *)
(* afterwards.                                                             *)
(***************************************************************************)
C5_UnmapHoleSucceeds ==
    [][(/\ CallStep /\ last'.op = "unmap" /\ last'.count >= 1
        /\ \A i \in 0 .. (last'.count - 1) :
              QueryIn(mem, WordAdd(last'.vaddr, i * PAGE_SIZE)).ret = ERR_NOT_FOUND)
       => /\ last'.r.ret = NO_ERROR
          /\ \A i \in 0 .. (last'.count - 1) :
                QueryIn(mem', WordAdd(last'.vaddr, i * PAGE_SIZE)).ret = ERR_NOT_FOUND]_vars

\* an Unmap over a hole that is an invalid slot above level 0
C5_Witness ==
    /\ last.op = "unmap" /\ last.r.ret = NO_ERROR /\ last.count = MaxCount
    /\ last.r.stores = 0 /\ last.r.calls = MaxCount /\ last.r.wlevel > 0

(***************************************************************************)
(* C6: Query of an address outside [base, base + size) returns             *)
(* ERR_OUT_OF_RANGE without walking the table, whatever entry the          *)
(* canonicalised address indexes, and writes neither *paddr nor *flags.    *)
(***************************************************************************)
C6_QueryOutOfRange ==
    (last.op = "query" /\ last.vaddr \notin AspaceAddrs)
    => /\ last.r.ret = ERR_OUT_OF_RANGE
       /\ ~last.r.walked /\ last.r.calls = 0
       /\ last.r.qpaddr = UnsetPaddr /\ last.r.qflags = UnsetFlags

\* Query of an address outside the space whose table indices are those of a
\* mapped page
C6_Witness ==
    /\ last.op = "query" /\ last.vaddr \notin AspaceAddrs
    /\ last.wantP /\ last.wantF
    /\ QueryIn(mem, WordAdd(last.vaddr, 2 ^ CanonBits)).ret = NO_ERROR

(***************************************************************************)
(* C7 as claimed: every Unmap of count >= 1 pages that returns, whatever   *)
(* its status, has handed (vaddr, count) to riscv_tlb_flush_vma_range.     *)
(***************************************************************************)
C7_EveryUnmapFlushes ==
    (last.op = "unmap" /\ last.count >= 1 /\ last.r.ret # PANIC)
    => last.r.flush = <<last.vaddr, last.count>>

(***************************************************************************)
(* C7 as amended: an Unmap of count >= 1 pages that returns has handed     *)
(* exactly (vaddr, count) to riscv_tlb_flush_vma_range when its start      *)
(* address is inside the address space (the fence request for the whole    *)
(* range is then queued for every other hart), and has returned            *)
(* ERR_OUT_OF_RANGE without calling the routine when it is not.            *)
(***************************************************************************)
C7_UnmapFlushesWhenInRange ==
    (last.op = "unmap" /\ last.count >= 1 /\ last.r.ret # PANIC)
    => IF OutOfAspace(aspace, last.vaddr)
       THEN last.r.ret = ERR_OUT_OF_RANGE /\ last.r.flush = <<>>
       ELSE /\ last.r.flush = <<last.vaddr, last.count>>
            /\ \A h \in Harts \ {last.hart} :
                  RangeVpns(last.vaddr, last.count) \subseteq pending[h]

\* an Unmap of MaxCount pages, the first mapped, returned after its walk
C7_Witness ==
    /\ last.op = "unmap" /\ last.count = MaxCount /\ last.r.walked
    /\ last.r.ret = NO_ERROR /\ last.r.stores >= 1
    /\ last.r.flush = <<last.vaddr, last.count>>

(***************************************************************************)
(* C8 as claimed: once an Unmap that passed its checks has returned, no    *)
(* hart holds a cached translation for a page of the range.                *)
(***************************************************************************)
C8_NoHartCachesUnmappedRange ==
    (last.op = "unmap" /\ PastChecks /\ last.r.ret # PANIC)
    => \A h \in Harts : tlb[h] \cap RangeVpns(last.vaddr, last.count) = {}

(***************************************************************************)
(* C8 as amended: once an Unmap that passed its checks has returned, the   *)
(* calling hart holds no cached translation for a page of the range, and   *)
(* every other hart that still holds one has the fence request for that    *)
(* page queued and not yet executed.                                       *)
(***************************************************************************)
C8_CallerFencedOthersQueued ==
    (last.op = "unmap" /\ PastChecks /\ last.r.ret # PANIC)
    => /\ tlb[last.hart] \cap RangeVpns(last.vaddr, last.count) = {}
       /\ \A h \in Harts \ {last.hart} :
             (tlb[h] \cap RangeVpns(last.vaddr, last.count)) \subseteq pending[h]

\* two harts cached a page, one of them unmapped it: the other still holds
\* the translation, with the fence queued
C8_Witness ==
    /\ last.op = "unmap" /\ PastChecks /\ last.r.ret = NO_ERROR
    /\ last.r.stores = last.count /\ last.count = MaxCount
    /\ \E h \in Harts \ {last.hart} :
          RangeVpns(last.vaddr, last.count) \subseteq (tlb[h] \cap pending[h])

(***************************************************************************)
(* C9: when pmm_alloc_page fails during a Map that needs a child table,    *)
(* Map returns ERR_NO_MEMORY having stopped on a slot above level 0 that   *)
(* is still invalid afterwards, and the page being mapped and every later  *)
(* page of the request translate as they did before the call (the page     *)
(* being mapped: not at all).                                              *)
(***************************************************************************)
C9_MapOutOfMemory ==
    [][(CallStep /\ last'.op = "map" /\ last'.r.ret = ERR_NO_MEMORY)
       => /\ last'.r.wlevel > 0
          /\ RISCV_PTE_V \notin mem'[last'.r.wtbl][last'.r.windex].bits
          /\ QueryIn(mem', last'.r.wvaddr).ret = ERR_NOT_FOUND
          /\ \A j \in 0 .. (last'.r.wcount - 1) :
                LET v == WordAdd(last'.r.wvaddr, j * PAGE_SIZE) IN
                  QV(mem', v) = QV(mem, v)]_vars

\* the allocator failed after an earlier page of the request was mapped
C9_Witness ==
    /\ last.op = "map" /\ last.r.ret = ERR_NO_MEMORY
    /\ last.r.wcount >= 1 /\ last.r.wcount < last.count

(***************************************************************************)
(* C10: whenever a Map, Unmap or Query call returns an error status, the   *)
(* page tables are entry for entry what they were before the call.         *)
(***************************************************************************)
C10_ErrorLeavesTablesUnchanged ==
    [][(CallStep /\ last'.r.ret \notin {NO_ERROR, PANIC}) => mem' = mem]_vars

(***************************************************************************)
(* C11: every leaf a Map call writes is the level-0 entry of a page i of   *)
(* its request and has: V, A, D and R set; W set iff read-only was not     *)
(* requested; X set iff no-execute was not requested; U set iff user was   *)
(* requested; G set iff the address space has the kernel flag; and the     *)
(* physical page number of paddr + i * PAGE_SIZE.                          *)
(***************************************************************************)
C11_MapLeafBits ==
    [][(CallStep /\ last'.op = "map")
       => \A t \in TablePpns, x \in Slots :
            LET new == mem'[t][x] IN
              (/\ new # mem[t][x]
               /\ RISCV_PTE_V \in new.bits
               /\ new.bits \cap {RISCV_PTE_R, RISCV_PTE_W, RISCV_PTE_X} # {})
              => \E i \in 0 .. (last'.count - 1) :
                   LET q == QueryIn(mem', WordAdd(last'.vaddr, i * PAGE_SIZE)) IN
                     /\ q.walked /\ q.wlevel = 0 /\ q.wtbl = t /\ q.windex = x
                     /\ new.ppn * PAGE_SIZE = WordAdd(last'.paddr, i * PAGE_SIZE)
                     /\ {RISCV_PTE_V, RISCV_PTE_A, RISCV_PTE_D, RISCV_PTE_R}
                            \subseteq new.bits
                     /\ (RISCV_PTE_W \in new.bits)
                            <=> (ARCH_MMU_FLAG_PERM_RO \notin last'.flags)
                     /\ (RISCV_PTE_X \in new.bits)
                            <=> (ARCH_MMU_FLAG_PERM_NO_EXECUTE \notin last'.flags)
                     /\ (RISCV_PTE_U \in new.bits)
                            <=> (ARCH_MMU_FLAG_PERM_USER \in last'.flags)
                     /\ (RISCV_PTE_G \in new.bits)
                            <=> (ARCH_ASPACE_FLAG_KERNEL \in aspace.flags)]_vars

\* a user-only Map of MaxCount pages at the second physical address wrote
\* all its leaves
C11_Witness ==
    /\ last.op = "map" /\ last.r.ret = NO_ERROR /\ last.count = MaxCount
    /\ last.flags = {ARCH_MMU_FLAG_PERM_USER}
    /\ last.paddr = (PoolSize + 8) * PAGE_SIZE
    /\ last.r.replies = {"ALLOC_PT", "COMMIT_AND_RESTART", "COMMIT_AND_HALT"}

(***************************************************************************)
(* C12: a Query call changes no page-table entry and takes no page from    *)
(* the allocator; its visitor runs exactly once when the address is in the *)
(* address space and not at all otherwise; and the only reply the walker   *)
(* takes from it is HALT (no commit, no restart, no allocate).             *)
(***************************************************************************)
C12_QueryReadsOnly ==
    [][(CallStep /\ last'.op = "query")
       => /\ mem' = mem /\ free' = free
          /\ last'.r.stores = 0
          /\ last'.r.calls = (IF last'.vaddr \in AspaceAddrs THEN 1 ELSE 0)
          /\ last'.r.replies \subseteq {"HALT"}]_vars

\* a Query that went down two links and found a leaf at level 0
C12_Witness ==
    /\ last.op = "query" /\ last.r.ret = NO_ERROR
    /\ last.r.wlevel = 0 /\ last.r.wtbl # RootPpn
    /\ last.r.calls = 1 /\ last.r.replies = {"HALT"}

(***************************************************************************)
(* C13: when Query stops on a valid leaf at level L, the physical address  *)
(* it returns is the leaf's physical base plus vaddr modulo the size of    *)
(* the level-L granule, 2^(PAGE_SIZE_SHIFT + L * RISCV_MMU_PT_SHIFT), and  *)
(* the flags it returns are: read-only iff R set and W clear, no-execute   *)
(* iff X clear, user iff U set.                                            *)
(***************************************************************************)
C13_QueryLeafAtAnyLevel ==
    (last.op = "query" /\ last.r.ret = NO_ERROR)
    => LET leaf == mem[last.r.wtbl][last.r.windex]
           granule == 2 ^ (PAGE_SIZE_SHIFT + last.r.wlevel * RISCV_MMU_PT_SHIFT)
       IN /\ RISCV_PTE_V \in leaf.bits
          /\ last.wantP =>
                last.r.qpaddr
                    = ((leaf.ppn * PAGE_SIZE) % AddrModulus) + (last.vaddr % granule)
          /\ last.wantF =>
                /\ last.r.qflags \subseteq MmuFlags
                /\ (ARCH_MMU_FLAG_PERM_RO \in last.r.qflags)
                      <=> (RISCV_PTE_R \in leaf.bits /\ RISCV_PTE_W \notin leaf.bits)
                /\ (ARCH_MMU_FLAG_PERM_NO_EXECUTE \in last.r.qflags)
                      <=> (RISCV_PTE_X \notin leaf.bits)
                /\ (ARCH_MMU_FLAG_PERM_USER \in last.r.qflags)
                      <=> (RISCV_PTE_U \in leaf.bits)

\* a Query inside the boot-time large page, beyond its first base page
C13_Witness ==
    /\ last.op = "query" /\ last.r.ret = NO_ERROR
    /\ last.r.wlevel = RISCV_MMU_PT_LEVELS - 1
    /\ last.wantP /\ last.wantF
    /\ last.vaddr % page_size_per_level(last.r.wlevel) > PAGE_SIZE

(***************************************************************************)
(* C14: a Map or an Unmap with count 0 returns NO_ERROR for every vaddr,   *)
(* inside or outside the address space, without walking: no page-table     *)
(* entry changes, no page is taken from the allocator, and the TLB flush   *)
(* routine is not called (no hart's cache or fence queue changes).         *)
(***************************************************************************)
C14_CountZeroIsNoOp ==
    [][(CallStep /\ last'.op \in {"map", "unmap"} /\ last'.count = 0)
       => /\ last'.r.ret = NO_ERROR
          /\ ~last'.r.walked /\ last'.r.stores = 0
          /\ mem' = mem /\ free' = free
          /\ last'.r.flush = <<>> /\ tlb' = tlb /\ pending' = pending]_vars

\* a Map of 0 pages at an address outside the space, on tables that hold a
\* mapping
C14_Witness ==
    /\ last.op = "map" /\ last.count = 0 /\ last.vaddr \notin AspaceAddrs
    /\ last.r.ret = NO_ERROR
    /\ \E v \in WinVAddrs : QueryIn(mem, v).ret = NO_ERROR

(***************************************************************************)
(* C15: a Map or an Unmap with count >= 1 whose start address is outside   *)
(* [base, base + size) returns ERR_OUT_OF_RANGE; no page-table entry       *)
(* changes and no page is taken from the allocator.                        *)
(***************************************************************************)
C15_StartOutOfRange ==
    [][(/\ CallStep /\ last'.op \in {"map", "unmap"}
        /\ last'.count >= 1 /\ last'.vaddr \notin AspaceAddrs)
       => /\ last'.r.ret = ERR_OUT_OF_RANGE
          /\ mem' = mem /\ free' = free]_vars

\* an Unmap outside the space whose table indices are those of a mapped page
C15_Witness ==
    /\ last.op = "unmap" /\ last.count >= 1 /\ last.vaddr \notin AspaceAddrs
    /\ last.r.ret = ERR_OUT_OF_RANGE
    /\ QueryIn(mem, WordAdd(last.vaddr, 2 ^ CanonBits)).ret = NO_ERROR

(***************************************************************************)
(* C16: ASID discovery is idempotent.  Every run of riscv_early_mmu_init   *)
(* leaves satp as it found it, and every run after the first records the   *)
(* mask the run before it recorded: after any number of runs in a row the  *)
(* mask is the mask of the first run and satp is what it was before it.    *)
(***************************************************************************)
C16_AsidDiscoveryIdempotent ==
    [][(inits' = inits + 1)
       => /\ satp' = satp
          /\ (inits >= 1 => riscv_asid_mask' = riscv_asid_mask)]_vars

\* three runs on a hart that implements some ASID bits and not others, with
\* a non-zero ASID in satp
C16_Witness ==
    /\ inits = MaxInits /\ satp.asid # {}
    /\ riscv_asid_mask # {} /\ riscv_asid_mask # AsidBits

(***************************************************************************)
(* C17: a run of riscv_early_mmu_init leaves the three fields of satp      *)
(* (mode, ASID, root page number) as they were before it, and the mask it  *)
(* records is exactly the set of ASID bits the hart implements, which is a *)
(* subset of the ASID field mask.                                          *)
(***************************************************************************)
C17_AsidMaskIsImplementedBits ==
    [][(inits' = inits + 1)
       => /\ satp'.mode = satp.mode /\ satp'.asid = satp.asid /\ satp'.ppn = satp.ppn
          /\ riscv_asid_mask' = asid_impl
          /\ riscv_asid_mask' \subseteq RISCV_SATP_ASID_MASK]_vars

\* the first run, with translation on, on a hart that implements some ASID
\* bits and holds fewer in satp
C17_Witness ==
    /\ inits = 1 /\ satp.mode = RISCV_SATP_MODE_SV /\ satp.ppn = RootPpn
    /\ asid_impl # AsidBits /\ satp.asid # asid_impl /\ satp.asid # {}
    /\ riscv_asid_mask = asid_impl

(***************************************************************************)
(* C18: arch_mmu_init_aspace called with a valid range and flags without   *)
(* the kernel flag returns ERR_NOT_IMPLEMENTED to its caller and leaves    *)
(* the descriptor bound to no root table.                                  *)
(***************************************************************************)
C18_NonKernelInitReturnsUnimplemented ==
    [][(/\ CallStep /\ last'.op = "init"
        /\ ARCH_ASPACE_FLAG_KERNEL \notin last'.flags
        /\ last'.size > PAGE_SIZE
        /\ WordSub(WordAdd(last'.vaddr, last'.size), 1) > last'.vaddr)
       => /\ last'.r.ret = ERR_NOT_IMPLEMENTED
          /\ aspace'.pt_virt = aspace.pt_virt]_vars

(***************************************************************************)
(* C19: a Query of page p that overlaps one Map call whose range contains  *)
(* p, p unmapped when the Map began, finishes without tripping an          *)
(* assertion and returns either ERR_NOT_FOUND or NO_ERROR with the         *)
(* physical address and the flags the Map installs for p, also when it     *)
(* walks through a table the Map has just linked.                          *)
(***************************************************************************)
C19_ConcurrentQuerySeesPreOrPost ==
    (qryw.pc \in {"done", "panic"} /\ mapw.pc # "none")
    => \A i \in 0 .. (mapw.req.count - 1) :
         (/\ Vpn(qryw.req.vaddr) = Vpn(WordAdd(mapw.req.vaddr, i * PAGE_SIZE))
          /\ mapw.req.pre[i] = ERR_NOT_FOUND)
         => /\ qryw.pc = "done"
            /\ \/ qryw.ret = ERR_NOT_FOUND
               \/ /\ qryw.ret = NO_ERROR
                  /\ qryw.qpaddr = WordAdd(mapw.req.paddr, i * PAGE_SIZE)
                                   + (qryw.req.vaddr % PAGE_SIZE)
                  /\ qryw.qflags = mapw.req.flags

\* the Query went down to a level-0 table the running Map had allocated and
\* linked, and found the slot of its page still empty
C19_Witness ==
    /\ qryw.pc = "done" /\ qryw.ret = ERR_NOT_FOUND /\ qryw.level = 0
    /\ mapw.pc = "loop" /\ qryw.tbl \in mapw.req.pool
    /\ \E i \in 0 .. (mapw.req.count - 1) :
          /\ Vpn(qryw.req.vaddr) = Vpn(WordAdd(mapw.req.vaddr, i * PAGE_SIZE))
          /\ mapw.req.pre[i] = ERR_NOT_FOUND

CurPte == mem[curw.tbl][curw.index]

IsLink(pte) == RISCV_PTE_V \in pte.bits /\ pte.bits \cap RISCV_PTE_PERM_MASK = {}

\* the step is one iteration of the for(;;) of the running call
IterStep == curw.pc = "loop" /\ curw' # curw

\* the iteration took a page from the allocator (case ALLOC_PT succeeded)
AllocStep == IterStep /\ free' # free

(***************************************************************************)
(* C21: the walker hands the visitor of a Map, an Unmap or a Query only    *)
(* entries that are Invalid or a Leaf.  An iteration that reads a Link     *)
(* descends without running the visitor and without a store; an iteration  *)
(* that reads anything else runs the visitor exactly once.  So no visitor  *)
(* ever fails its assertion that a valid entry carries a permission bit,   *)
(* and after an allocate-and-descend reply the walker stands at another    *)
(* slot, one level down, where the visitor runs next.                      *)
(***************************************************************************)
C21_VisitorOnlyAtStoppingPoints ==
    [][IterStep =>
         /\ IsLink(CurPte) => (curw'.calls = curw.calls /\ mem' = mem
                               /\ curw'.pc # "done")
         /\ ~IsLink(CurPte) => curw'.calls = curw.calls + 1
         /\ curw'.why # "assert perm"
         /\ AllocStep => /\ curw'.calls = curw.calls + 1
                         /\ curw'.pc = "loop"
                         /\ <<curw'.tbl, curw'.index>> # <<curw.tbl, curw.index>>
                         /\ curw'.level = curw.level - 1
                         /\ ~IsLink(mem'[curw'.tbl][curw'.index])]_vars

\* a Map that went down two links an earlier call had installed, ran its
\* visitor once, at level 0, and returned
C21_Witness ==
    /\ curw.pc = "done" /\ curw.req.op = "map" /\ curw.ret = NO_ERROR
    /\ curw.calls = 1 /\ curw.level = 0 /\ free # PoolPpns /\ nops = 1

(***************************************************************************)
(* C22: at every step of every walk of a Map, an Unmap or a Query the      *)
(* walker's level is one of 0 .. RISCV_MMU_PT_LEVELS - 1 and its index is  *)
(* a slot of a table: no walk goes below level 0, and neither the          *)
(* assertion at the end of the loop nor the one in vaddr_to_index fails.   *)
(***************************************************************************)
C22_LevelInRange ==
    curw.pc # "none"
    => /\ curw.level \in 0 .. (RISCV_MMU_PT_LEVELS - 1)
       /\ curw.index \in Slots
       /\ curw.tbl \in TablePpns \ free
       /\ curw.why # "assert level"

\* an Unmap of two pages that has visited the first, restarted from the top
\* and come down again to level 0, in a table an earlier Map allocated
C22_Witness ==
    /\ curw.pc = "loop" /\ curw.req.op = "unmap" /\ curw.level = 0
    /\ curw.tbl \in PoolPpns /\ curw.calls = 1 /\ curw.count = 1

(***************************************************************************)
(* C23: an iteration in which the visitor replies ALLOC_PT and the         *)
(* allocator gives a page p writes exactly one entry of the tables in use, *)
(* the slot the walker stands at, and writes there a Link to p: valid, no  *)
(* permission bit, no other bit, page number p.  In the state in which the *)
(* Link is there, every entry of table p is Invalid.  The walk goes on in  *)
(* table p one level down, at the index of the same vaddr, with the same   *)
(* count: it does not go back to the top and the call does not return.     *)
(***************************************************************************)
C23_AllocLinksZeroedTableAndDescends ==
    [][AllocStep =>
         \E p \in free :
            /\ free' = free \ {p}
            /\ ~IsLink(CurPte) /\ RISCV_PTE_V \notin CurPte.bits
            /\ mem'[curw.tbl][curw.index] = [ppn |-> p, bits |-> {RISCV_PTE_V}]
            /\ \A s \in Slots : mem'[p][s] = ZeroPte
            /\ \A t \in TablePpns \ {p}, s \in Slots :
                  <<t, s>> # <<curw.tbl, curw.index>> => mem'[t][s] = mem[t][s]
            /\ curw'.pc = "loop"
            /\ curw'.tbl = p
            /\ curw'.level = curw.level - 1
            /\ curw'.index = (curw.vaddr \div (PAGE_SIZE * RISCV_MMU_PT_ENTRIES ^ curw'.level))
                                % RISCV_MMU_PT_ENTRIES
            /\ curw'.vaddr = curw.vaddr /\ curw'.count = curw.count
            /\ curw'.stores = curw.stores + 1]_vars

\* a Map standing at level 0 in the table it has just linked into a level-1
\* table, the second table of the call; the page it took held junk before
C23_Witness ==
    /\ curw.pc = "loop" /\ curw.req.op = "map" /\ curw.level = 0
    /\ curw.stores = 2 /\ curw.calls = 2 /\ curw.tbl \in PoolPpns
    /\ curw.tbl \notin free /\ mem[curw.tbl] = ZeroTable
    /\ \E t \in PoolPpns \ free, s \in Slots :
          mem[t][s] = [ppn |-> curw.tbl, bits |-> {RISCV_PTE_V}]

(***************************************************************************)
(* C24: a Map of n pages installs them one at a time, lowest address       *)
(* first.  At every iteration of its walk, with i = n - remaining count:   *)
(* the two cursors stand at page i; pages 0 .. i-1 are in the tables with  *)
(* their final translation (Query gives paddr + j * PAGE_SIZE and the      *)
(* flags of the call); pages i .. n-1 translate as they did when the call  *)
(* began; and the walk is still running only if i < n.  The walk restarts  *)
(* with COMMIT_AND_RESTART after each page but the last; the last is       *)
(* committed with COMMIT_AND_HALT and the Map returns NO_ERROR.            *)
(***************************************************************************)
C24_MapInstallsPagesInOrder ==
    (curw.pc # "none" /\ curw.req.op = "map" /\ curw.req.walked)
    => LET n == curw.req.count
           i == n - curw.count
           page(j) == WordAdd(curw.req.vaddr, j * PAGE_SIZE)
       IN /\ i \in 0 .. n
          /\ curw.vaddr = page(i)
          /\ curw.paddr = WordAdd(curw.req.paddr, i * PAGE_SIZE)
          /\ \A j \in 0 .. (i - 1) :
                QV(mem, page(j)) = <<NO_ERROR,
                                     WordAdd(curw.req.paddr, j * PAGE_SIZE),
                                     curw.req.flags>>
          /\ \A j \in i .. (n - 1) : QV(mem, page(j)) = curw.req.pre[j]
          /\ curw.pc = "loop" => i < n /\ "COMMIT_AND_HALT" \notin curw.replies
          /\ "COMMIT_AND_RESTART" \in curw.replies <=> (i >= 1 /\ n >= 2)
          /\ "COMMIT_AND_HALT" \in curw.replies <=> i = n
          /\ i = n <=> (curw.pc = "done" /\ curw.ret = NO_ERROR)

\* a Map of MaxCount pages across a table boundary that has committed its
\* first page and is going down again for the second
C24_Witness ==
    /\ curw.pc = "loop" /\ curw.req.op = "map" /\ curw.req.count = MaxCount
    /\ curw.count = 1 /\ curw.level < RISCV_MMU_PT_LEVELS - 1
    /\ curw.req.vaddr = WinVAddr(RISCV_MMU_PT_ENTRIES - 1)
    /\ QV(mem, curw.req.vaddr)[1] = NO_ERROR
    /\ QV(mem, curw.vaddr)[1] = ERR_NOT_FOUND

(***************************************************************************)
(* C25: an Unmap takes no page from the allocator and leaves every entry   *)
(* that was Invalid before the call, at every level, as it was.  When      *)
(* every page of its range is a hole the call stores nothing at all: its   *)
(* visitor runs once per page, replies only RESTART and HALT, the tables   *)
(* are unchanged, and the call returns NO_ERROR; this is so too when the   *)
(* hole is an Invalid slot above level 0.                                  *)
(***************************************************************************)
C25_UnmapNeverWritesHoles ==
    [][(CallStep /\ last'.op = "unmap")
       => LET page(i) == WordAdd(last'.vaddr, i * PAGE_SIZE)
              pages == 0 .. (last'.count - 1)
          IN /\ free' = free
             /\ \A t \in TablePpns, s \in Slots :
                   RISCV_PTE_V \notin mem[t][s].bits => mem'[t][s] = mem[t][s]
             /\ (/\ last'.count >= 1 /\ last'.vaddr \in AspaceAddrs
                 /\ \A i \in pages : QueryIn(mem, page(i)).ret = ERR_NOT_FOUND)
                => /\ mem' = mem
                   /\ last'.r.stores = 0
                   /\ last'.r.calls = last'.count
                   /\ last'.r.replies \subseteq {"RESTART", "HALT"}
                   /\ last'.r.ret = NO_ERROR]_vars

\* an Unmap of MaxCount pages, all of them under an Invalid slot of a
\* level-1 table an earlier Map built next to it
C25_Witness ==
    /\ last.op = "unmap" /\ last.count = MaxCount /\ last.r.ret = NO_ERROR
    /\ last.r.stores = 0 /\ last.r.calls = MaxCount
    /\ last.r.wlevel = RISCV_MMU_PT_LEVELS - 2
    /\ free # PoolPpns

(***************************************************************************)
(* C26: within one Unmap every store to a page-table entry comes before    *)
(* the TLB invalidation of the range.  The broadcast request and the local *)
(* fences are issued only once the walk has returned, and from then until  *)
(* the call returns no entry of any table changes.                         *)
(***************************************************************************)
C26_WriteThenFence ==
    [][curw.pc # "none"
       => /\ curw.flushed => (mem' = mem /\ ~IterStep)
          /\ (tlb' # tlb \/ pending' # pending \/ (curw'.pc # "none" /\ curw'.flushed))
             => /\ curw.pc = "done" /\ curw.req.op = "unmap"
                /\ mem' = mem
                /\ curw'.stores = curw.stores]_vars

\* an Unmap that zeroed an entry, then fenced its range and queued the fence
\* for the other hart, and has not yet returned
C26_Witness ==
    /\ curw.pc = "done" /\ curw.req.op = "unmap" /\ curw.flushed
    /\ curw.stores >= 1
    /\ \E h \in Harts : Vpn(curw.req.vaddr) \in pending[h]

(***************************************************************************)
(* C27: the range invalidation for (base, count), count >= 1, makes one    *)
(* broadcast request, addressed to every hart, for the count * PAGE_SIZE   *)
(* bytes from base; and executes count local fences, the k-th of them for  *)
(* base + (k - 1) * PAGE_SIZE: one for every page of the range, none       *)
(* twice, none for another address.  The calling hart loses its cached     *)
(* translations of those pages and of no other page, and the local fences  *)
(* touch no other hart's cache.                                            *)
(***************************************************************************)
C27_RangeInvalidation ==
    [][(CallStep /\ last'.op = "unmap" /\ last'.r.flush # <<>>)
       => LET base == last'.r.flush[1]
              count == last'.r.flush[2]
              pages == {(WordAdd(base, k * PAGE_SIZE)) \div PAGE_SIZE :
                           k \in 0 .. (count - 1)}
              sf == last'.r.sfences
          IN /\ count >= 1
             /\ last'.r.rfences
                  = <<[hart_mask |-> Harts, base |-> base, size |-> count * PAGE_SIZE]>>
             /\ Len(sf) = count
             /\ \A k \in 1 .. count : sf[k] = WordAdd(base, (k - 1) * PAGE_SIZE)
             /\ \A j, k \in 1 .. count : j # k => sf[j] # sf[k]
             /\ tlb'[last'.hart] = tlb[last'.hart] \ pages
             /\ \A o \in Harts \ {last'.hart} : tlb'[o] = tlb[o]]_vars

\* hart 1 has unmapped MaxCount pages: it executed MaxCount local fences and
\* hart 0, which caches the first page, has the range fence queued
C27_Witness ==
    /\ last.op = "unmap" /\ last.hart = 1 /\ last.r.ret = NO_ERROR
    /\ last.r.flush # <<>> /\ Len(last.r.sfences) = MaxCount
    /\ Len(last.r.rfences) = 1
    /\ Vpn(last.vaddr) \in tlb[0] \cap pending[0]
    /\ Vpn(last.vaddr) \notin tlb[1]

(***************************************************************************)
(* C28: every Map, Unmap and Query call ends: once begun it returns a      *)
(* status or stops the machine.  The measure count * LEVELS +    *)
(* level falls at every iteration that does not end the walk: a descent    *)
(* lowers the level by one and keeps the count, a restart lowers the count *)
(* by one and goes back to the top.  A walk restarts only while a page is  *)
(* left, so a request of n pages restarts at most n - 1 times; the visitor *)
(* runs at most LEVELS times per page in a Map, once in a Query, at most n *)
(* times in an Unmap and exactly n times in an Unmap that returns.         *)
(***************************************************************************)
Rank(w) == w.count * RISCV_MMU_PT_LEVELS + w.level

C28_EveryCallTerminates ==
    /\ [][IterStep
          => LET n == curw.req.count
                 goes_on == curw'.pc = "loop"
                 restart == goes_on /\ curw'.calls # curw.calls /\ free' = free
             IN /\ goes_on => (Rank(curw') < Rank(curw) /\ Rank(curw') >= 0)
                /\ restart => /\ curw'.count = curw.count - 1
                              /\ curw'.count >= 1
                              /\ n - curw'.count <= n - 1
                              /\ curw'.level = RISCV_MMU_PT_LEVELS - 1
                              /\ curw'.tbl = curw.root
                /\ (goes_on /\ ~restart) => /\ curw'.level = curw.level - 1
                                            /\ curw'.count = curw.count
                /\ curw.req.op = "map" => curw'.calls <= n * RISCV_MMU_PT_LEVELS
                /\ curw.req.op = "query" => curw'.calls <= 1 /\ ~restart
                /\ curw.req.op = "unmap"
                     => /\ curw'.calls <= n
                        /\ curw'.pc = "done" => curw'.calls = n]_vars
    /\ (curw.pc # "none") ~> (curw.pc = "none")

\* a Map of MaxCount pages that has returned after the most visitor calls a
\* Map can make: LEVELS for its first page, which built the tables down to
\* level 0, and LEVELS - 1 for its second, in another level-0 table
C28_Witness ==
    /\ last.op = "map" /\ last.count = MaxCount /\ last.r.ret = NO_ERROR
    /\ last.r.calls = 2 * RISCV_MMU_PT_LEVELS - 1 /\ curw.pc = "none"

(***************************************************************************)
(* C29: child tables are never unlinked and never given back.  A slot of a *)
(* table reachable from the root that holds a Link holds the same Link     *)
(* after any Map, Unmap or Query, so the set of tables reachable from the  *)
(* root only grows; the allocator's pool only shrinks and no reachable     *)
(* table is in it.  This is so for an Unmap that leaves a child table with *)
(* no valid entry, too.                                                    *)
(***************************************************************************)
\* the tables the Links of the tables in T point to
LinkTargets(m, T) ==
    {p \in TablePpns : \E t \in T, s \in Slots :
                          IsLink(m[t][s]) /\ m[t][s].ppn = p}

RECURSIVE ReachFrom(_, _, _)
ReachFrom(m, T, k) ==
    IF k = 0 THEN T ELSE ReachFrom(m, T \cup LinkTargets(m, T), k - 1)

\* the tables reachable from the root of the address space
Reachable(m) == ReachFrom(m, {aspace.pt_virt}, RISCV_MMU_PT_LEVELS)

C29_LinksNeverRemoved ==
    [][CallStep
       => /\ \A t \in Reachable(mem), s \in Slots :
                IsLink(mem[t][s]) => mem'[t][s] = mem[t][s]
          /\ Reachable(mem) \subseteq Reachable(mem')
          /\ free' \subseteq free
          /\ Reachable(mem') \cap free' = {}]_vars

\* an Unmap has zeroed the only leaf of a level-0 table: the table has no
\* valid entry and is still linked from its level-1 table
C29_Witness ==
    /\ last.op = "unmap" /\ last.r.ret = NO_ERROR /\ last.r.stores >= 1
    /\ last.r.wlevel = 0
    /\ last.r.wtbl \in Reachable(mem) \ {aspace.pt_virt}
    /\ \A s \in Slots : RISCV_PTE_V \notin mem[last.r.wtbl][s].bits
    /\ \E t \in Reachable(mem), s \in Slots :
          mem[t][s] = [ppn |-> last.r.wtbl, bits |-> {RISCV_PTE_V}]

(***************************************************************************)
(* C30: riscv_set_satp checks the ASID against the discovered mask before  *)
(* it writes the register: the check passes exactly for the ASIDs that     *)
(* have no bit outside riscv_asid_mask, ASID 0 among them, and fails for   *)
(* every ASID that has a bit outside the mask; the register is written     *)
(* only when the check has passed.                                         *)
(***************************************************************************)
C30_AsidCheckedAgainstMask ==
    [][(CallStep /\ last'.op = "set_satp")
       => /\ (last'.r.why # "assert asid") <=> (last'.asid \subseteq riscv_asid_mask)
          /\ last'.r.why = "assert asid" => satp' = satp]_vars

(***************************************************************************)
(* C31: the walker takes no lock.  When two Map calls for different pages  *)
(* of one address space run without being kept apart, both can return      *)
(* NO_ERROR while one of the two pages is not mapped: both walks read the  *)
(* same Invalid slot above level 0, each links a table of its own there,   *)
(* and the later store cuts off the table of the earlier, which holds the  *)
(* earlier call's leaf, is reachable from the root no more and is not in   *)
(* the allocator's pool.  That is the only way a page is lost: when both   *)
(* calls have returned NO_ERROR at least one page is mapped, a page that   *)
(* is not mapped was lost as described and the calls overlapped, and when  *)
(* the second call begins after the first has returned both are mapped.    *)
(***************************************************************************)
RaceLinkTargets(T) ==
    {p \in DOMAIN mem : \E t \in T, s \in Slots :
                           IsLink(mem[t][s]) /\ mem[t][s].ppn = p}

RECURSIVE RaceReachFrom(_, _)
RaceReachFrom(T, k) ==
    IF k = 0 THEN T ELSE RaceReachFrom(T \cup RaceLinkTargets(T), k - 1)

RaceReachable == RaceReachFrom({aspace.pt_virt}, RISCV_MMU_PT_LEVELS)

\* Query gives the page of call w the paddr the call was given
RaceMapped(w) == QV(mem, w.req.vaddr) = <<NO_ERROR, w.req.paddr, {}>>

\* the leaf of call w is where the call stored it, in a table that is cut off
\* from the root and not in the pool
RaceLost(w) ==
    /\ ~RaceMapped(w)
    /\ w.level = 0
    /\ mem[w.tbl][w.index].ppn = RISCV_PTE_PPN_TO_PTE(w.req.paddr)
    /\ RISCV_PTE_V \in mem[w.tbl][w.index].bits
    /\ w.tbl \notin RaceReachable
    /\ w.tbl \notin free

RaceBothReturned ==
    /\ mapw.pc = "done" /\ mapw.ret = NO_ERROR
    /\ curw.pc = "done" /\ curw.ret = NO_ERROR
    /\ Vpn(mapw.req.vaddr) # Vpn(curw.req.vaddr)

C31_UnserializedMapsLoseAPage ==
    RaceBothReturned
    => /\ RaceMapped(mapw) \/ RaceMapped(curw)
       /\ ~RaceMapped(mapw) => (RaceLost(mapw) /\ (mapw.req.overlap \/ curw.req.overlap))
       /\ ~RaceMapped(curw) => (RaceLost(curw) /\ (mapw.req.overlap \/ curw.req.overlap))
       /\ (~mapw.req.overlap /\ ~curw.req.overlap)
            => /\ RaceMapped(mapw) /\ RaceMapped(curw)
               /\ RaceReachable \cup free = DOMAIN mem

\* both calls have returned NO_ERROR, the page of hart 0 is not mapped and
\* the table that holds its leaf is leaked
C31_Witness ==
    /\ RaceBothReturned
    /\ RaceLost(mapw) /\ RaceMapped(curw)
    /\ mapw.stores >= 2 /\ curw.stores >= 2

(***************************************************************************)
(* C32: every arch_mmu_init_aspace that returns NO_ERROR leaves the        *)
(* descriptor bound to the one static kernel root table, with the fixed    *)
(* kernel base and size, and changes no entry of any table and nothing in  *)
(* the allocator: the boot-time mapping is still there.  A second          *)
(* descriptor initialised with success is an alias of the same tree:       *)
(* Query through it gives, for every address, what Query through the first *)
(* gives, so a page just mapped through the first is found through the     *)
(* second.                                                                 *)
(***************************************************************************)
\* what a second, so far unused, descriptor holds after a successful init
SecondDescriptor(b, sz, f) == arch_mmu_init_aspace(NullAspace, b, sz, f)

C32_InitBindsTheKernelRoot ==
    /\ [][(CallStep /\ last'.op = "init")
          => /\ mem' = mem /\ free' = free
             /\ last'.r.ret = NO_ERROR
                  => /\ aspace'.pt_virt = RootPpn
                     /\ aspace'.base = KERNEL_ASPACE_BASE
                     /\ aspace'.size = KERNEL_ASPACE_SIZE
             /\ last'.r.ret # NO_ERROR => aspace'.pt_virt = aspace.pt_virt]_vars
    /\ [](Bound
          => /\ aspace.pt_virt = RootPpn
             /\ aspace.base = KERNEL_ASPACE_BASE /\ aspace.size = KERNEL_ASPACE_SIZE
             /\ \A b \in InitBases, sz \in InitSizes, f \in InitFlagSets :
                   LET d == SecondDescriptor(b, sz, f) IN
                   d.ret = NO_ERROR
                   => \A v \in VAddrs, o \in Offsets :
                        LET q1 == arch_mmu_query(aspace, mem, WordAdd(v, o), TRUE, TRUE)
                            q2 == arch_mmu_query(d.aspace, mem, WordAdd(v, o), TRUE, TRUE)
                        IN <<q2.ret, q2.qpaddr, q2.qflags>>
                             = <<q1.ret, q1.qpaddr, q1.qflags>>)

\* a descriptor initialised over a root that holds the boot-time mapping,
\* then a Map through it: the boot mapping is still there and a second
\* descriptor finds the page just mapped
C32_Witness ==
    /\ Bound /\ nops = 2 /\ last.op = "map" /\ last.r.ret = NO_ERROR
    /\ last.count >= 1
    /\ mem[RootPpn][BootSlot] = BootPte
    /\ \E b \in InitBases, sz \in InitSizes, f \in InitFlagSets :
          LET d == SecondDescriptor(b, sz, f) IN
            /\ d.ret = NO_ERROR
            /\ arch_mmu_query(d.aspace, mem, last.vaddr, TRUE, TRUE).qpaddr = last.paddr

(***************************************************************************)
(* C33: after any sequence of Map and Unmap calls made one after another   *)
(* the tree under the root is well formed.  Every valid entry of a level-0 *)
(* table is a Leaf with the read bit set, so the walker never takes it for *)
(* a Link.  Every valid entry of a table above level 0 is a Link to a page *)
(* the allocator gave out (the one exception is the large-page leaf the    *)
(* boot code left in the root, when the root did not start all Invalid).   *)
(* No table is linked from two slots, and none is at two levels.           *)
(***************************************************************************)
\* the tables at a level: the root at the top, below it what the Links of
\* the level above point to
RECURSIVE TablesAtLevel(_, _)
TablesAtLevel(m, level) ==
    IF level >= RISCV_MMU_PT_LEVELS - 1 THEN {aspace.pt_virt}
    ELSE LinkTargets(m, TablesAtLevel(m, level + 1))

\* the slots of tables above level 0 that hold a Link
LinkSlots(m) ==
    {ts \in TablePpns \X Slots :
        /\ \E l \in 1 .. (RISCV_MMU_PT_LEVELS - 1) : ts[1] \in TablesAtLevel(m, l)
        /\ IsLink(m[ts[1]][ts[2]])}

BootLeafAt(m, t, s) == t = RootPpn /\ s = BootSlot /\ m[t][s] = BootPte

C33_TreeWellFormed ==
    /\ \A t \in TablesAtLevel(mem, 0), s \in Slots :
          RISCV_PTE_V \in mem[t][s].bits
          => (RISCV_PTE_R \in mem[t][s].bits /\ ~IsLink(mem[t][s]))
    /\ \A l \in 1 .. (RISCV_MMU_PT_LEVELS - 1) :
          \A t \in TablesAtLevel(mem, l), s \in Slots :
             RISCV_PTE_V \in mem[t][s].bits
             => \/ BootLeafAt(mem, t, s)
                \/ /\ IsLink(mem[t][s])
                   /\ mem[t][s].ppn \in PoolPpns \ free
    /\ \A a, b \in LinkSlots(mem) : a # b => mem[a[1]][a[2]].ppn # mem[b[1]][b[2]].ppn
    /\ \A l1, l2 \in 0 .. (RISCV_MMU_PT_LEVELS - 1) :
          l1 # l2 => TablesAtLevel(mem, l1) \cap TablesAtLevel(mem, l2) = {}
    /\ mem[RootPpn][BootSlot] # BootPte
         => \A l \in 1 .. (RISCV_MMU_PT_LEVELS - 1) :
               \A t \in TablesAtLevel(mem, l), s \in Slots :
                  RISCV_PTE_V \in mem[t][s].bits => IsLink(mem[t][s])

\* from an all-Invalid root: two level-0 tables under one level-1 table, one
\* holding a read-only no-execute leaf, after a Map and an Unmap
C33_Witness ==
    /\ mem[RootPpn][BootSlot] # BootPte
    /\ Cardinality(TablesAtLevel(mem, 0)) = 2
    /\ Cardinality(TablesAtLevel(mem, 1)) = 1
    /\ last.op = "unmap" /\ last.r.stores = 1
    /\ \E t \in TablesAtLevel(mem, 0), s \in Slots :
          mem[t][s].bits \cap {RISCV_PTE_V, RISCV_PTE_R, RISCV_PTE_W, RISCV_PTE_X}
            = {RISCV_PTE_V, RISCV_PTE_R}

(***************************************************************************)
(* C34: a Map or an Unmap whose start lies inside the address space never  *)
(* creates, changes or removes the translation of a page outside the       *)
(* space, whatever its count: also when the count takes the range past the *)
(* end of the space, where the address wraps to 0.  Every entry it writes  *)
(* is on the path of a page inside the space: no root slot that covers     *)
(* only addresses outside the space is written.                            *)
(***************************************************************************)
\* what the tables hold for vaddr, read by the walker without the range
\* test of arch_mmu_query
RawQV(m, vaddr) ==
    LET w == riscv_pt_walk(NewWalker("query", aspace, m, {}, 0, vaddr, 0, 0, {},
                                     TRUE, TRUE))
    IN <<w.ret, w.qpaddr, w.qflags>>

\* the pages of the lower canonical half: none is in the kernel space
OutsidePages ==
    {v \in 0 .. (2 ^ (CanonBits - 1) - 1) : v % PAGE_SIZE = 0 /\ v \notin AspaceAddrs}

\* root slots on the path of no address of the space
OutsideRootSlots ==
    Slots \ {(((a % (2 ^ CanonBits)) \div PAGE_SIZE)
                \div (RISCV_MMU_PT_ENTRIES ^ (RISCV_MMU_PT_LEVELS - 1)))
              % RISCV_MMU_PT_ENTRIES : a \in AspaceAddrs}

C34_NothingOutsideTheSpaceIsTouched ==
    [][(CallStep /\ last'.op \in {"map", "unmap"} /\ last'.vaddr \in AspaceAddrs)
       => /\ \A v \in OutsidePages : RawQV(mem', v) = RawQV(mem, v)
          /\ \A s \in OutsideRootSlots :
                mem'[aspace.pt_virt][s] = mem[aspace.pt_virt][s]]_vars


(***************************************************************************)
(* C35: a Map that returns success changes no translation outside its own  *)
(* range: for every page q of the address space that is not one of the     *)
(* pages v, v + PAGE_SIZE, ..., Query(q) gives the same status, paddr and  *)
(* flags after the call as before it, at every in-page offset, also when q *)
(* shares its level-0 table or an upper-level slot with a mapped page.     *)
(***************************************************************************)
\* the page addresses of the address space
SpacePages == {a \in AspaceAddrs : a % PAGE_SIZE = 0}

C35_MapChangesOnlyItsRange ==
    [][(CallStep /\ last'.op = "map" /\ last'.r.ret = NO_ERROR)
       => LET inRange(q) == \E i \in 0 .. (last'.count - 1) :
                               q = WordAdd(last'.vaddr, i * PAGE_SIZE)
          IN \A q \in SpacePages, o \in Offsets :
                ~inRange(q)
                => QV(mem', WordAdd(q, o)) = QV(mem, WordAdd(q, o))]_vars

\* a page was mapped into the level-0 table that already held the leaf of
\* the page before it, and that neighbour still translates
C35_Witness ==
    /\ last.op = "map" /\ last.r.ret = NO_ERROR
    /\ last.count = 1 /\ last.vaddr = WinVAddr(RISCV_MMU_PT_ENTRIES - 1)
    /\ last.r.stores = 1 /\ free = PoolPpns \ {MinOf(PoolPpns), MinOf(PoolPpns \ {MinOf(PoolPpns)})}
    /\ QueryIn(mem, WinVAddr(RISCV_MMU_PT_ENTRIES - 2)).ret = NO_ERROR

(***************************************************************************)
(* C36: in serialized executions Map takes a table page from the allocator *)
(* only for an Invalid slot above level 0 that one of its pages runs into, *)
(* once per such slot: a page whose chain of links down to level 0 exists  *)
(* costs nothing, n pages cost at most one table per distinct upper-level  *)
(* slot they traverse, and after a successful Map every page taken is a    *)
(* table of the tree, linked from exactly one slot that was Invalid.       *)
(***************************************************************************)
\* where a walk of vaddr stops on table memory m, with no write
StopOf(m, vaddr) ==
    riscv_pt_walk(NewWalker("query", aspace, m, {}, 0, vaddr, 0, 0, {}, TRUE, TRUE))

\* the upper-level slots with no table under them on the way to the pages
\* vaddr, vaddr + PAGE_SIZE, ..., each named by its level and the region of
\* addresses it translates
MissingSlots(m, vaddr, count) ==
    {ls \in (1 .. (RISCV_MMU_PT_LEVELS - 1)) \X (0 .. (AddrModulus - 1)) :
        \E i \in 0 .. (count - 1) :
           LET v == WordAdd(vaddr, i * PAGE_SIZE)
               w == StopOf(m, v)
           IN /\ w.ret = ERR_NOT_FOUND
              /\ ls[1] <= w.level
              /\ ls[2] = v \div page_size_per_level(ls[1])}

C36_MapAllocatesOncePerMissingTable ==
    [][(CallStep /\ last'.op = "map")
       => LET taken == free \ free'
              missing == MissingSlots(mem, last'.vaddr, last'.count)
              linksTo(p) == {ts \in TablePpns \X Slots :
                                /\ ts[1] \in Reachable(mem')
                                /\ IsLink(mem'[ts[1]][ts[2]])
                                /\ mem'[ts[1]][ts[2]].ppn = p}
          IN /\ free' \subseteq free
             /\ Cardinality(taken) <= Cardinality(missing)
             /\ missing = {} => free' = free
             /\ last'.r.ret = NO_ERROR
                => /\ Cardinality(taken) = Cardinality(missing)
                   /\ \A p \in taken :
                         /\ Cardinality(linksTo(p)) = 1
                         /\ \A ts \in linksTo(p) :
                               \/ ts[1] \in taken
                               \/ RISCV_PTE_V \notin mem[ts[1]][ts[2]].bits]_vars

\* two pages on either side of a level-0 table boundary were mapped under an
\* existing level-1 table: one of them found its level-0 table, the other
\* had one allocated
C36_Witness ==
    /\ last.op = "map" /\ last.r.ret = NO_ERROR
    /\ last.count = 2 /\ last.vaddr = WinVAddr(RISCV_MMU_PT_ENTRIES - 1)
    /\ last.r.stores = 3
    /\ Cardinality(free) = PoolSize - 3

(***************************************************************************)
(* C37: queue_command uses only a command slot of 0 .. CMD_COUNT - 1 whose *)
(* bit is clear in both PxSACT and PxCI when it is chosen; when every slot *)
(* is busy it uses no slot, writes no command header and no command table  *)
(* (nor anything outside them), sets no pending bit and does not return    *)
(* success.                                                                *)
(***************************************************************************)
\* the slots whose header, table or tally of kicked commands the step wrote
SlotsTouched ==
    {s \in CmdSlots : \/ port'.cmd_list_[s] # port.cmd_list_[s]
                      \/ port'.cmd_table_[s] # port.cmd_table_[s]
                      \/ port'.queued[s] # port.queued[s]}

C37_QueueUsesOnlyAFreeSlot ==
    [][\A t \in Threads :
         (thr[t].pc = "locked" /\ thr'[t].pc # "locked")
         => LET busy == port.PxSACT \cup port.PxCI IN
            IF busy = CmdSlots
            THEN /\ SlotsTouched = {}
                 /\ ~port'.wild
                 /\ port'.cmd_pending_ = port.cmd_pending_
                 /\ port'.PxCI = port.PxCI
                 /\ thr'[t].err # NO_ERROR /\ thr'[t].pc # "panic"
            ELSE \E s \in CmdSlots \ busy :
                    /\ SlotsTouched = {s}
                    /\ thr'[t].slot = s
                    /\ port'.cmd_pending_ = port.cmd_pending_ \cup {s}
                    /\ ~port'.wild]_vars

(***************************************************************************)
(* C38: whatever the interleaving of threads that call queue_command and   *)
(* then wait_for_completion(slot), of the device finishing commands and of *)
(* irq_handler runs, every command the device finishes leads to one signal *)
(* of its slot's event (never more signals than finished commands, and the *)
(* n-th finished command of a slot is followed by the n-th signal), and    *)
(* every thread that has queued a command returns from its wait: a slot    *)
(* whose PxCI bit has cleared and whose interrupt is not handled yet is    *)
(* not given to a second command so that a waiter stays blocked.           *)
(***************************************************************************)
C38_EveryCompletionSignalsItsWaiter ==
    /\ [](\A s \in CmdSlots : port.signals[s] <= port.completed[s])
    /\ \A s \in CmdSlots, n \in 1 .. CMD_COUNT :
          (port.completed[s] >= n) ~> (port.signals[s] >= n)
    /\ \A t \in PairThreads :
          (thr[t].pc \in {"queued", "waiting"}) ~> (thr[t].pc = "done")

(***************************************************************************)
(* C39: a run of irq_handler calls event_signal once for each slot whose   *)
(* pending bit is set and whose PxCI bit is clear and for no other slot,   *)
(* clears the pending bit of exactly those slots, returns INT_RESCHEDULE   *)
(* exactly when there was such a slot, and signals only slots into which a *)
(* command was queued; cmd_pending_ changes only in a step taken with the  *)
(* port spinlock held, and events are signalled only by the handler.       *)
(***************************************************************************)
C39_IrqHandlerSignalsExactlyTheCompleted ==
    /\ [][(port.in_irq /\ ~port'.in_irq)
          => LET complete == port.cmd_pending_ \ port.PxCI IN
             /\ \A s \in CmdSlots :
                   port'.signals[s] = port.signals[s] + (IF s \in complete THEN 1 ELSE 0)
             /\ port'.cmd_pending_ = port.cmd_pending_ \ complete
             /\ (port'.irq_ret = INT_RESCHEDULE) <=> (complete # {})
             /\ port'.irq_ret \in {INT_RESCHEDULE, INT_NO_RESCHEDULE}
             /\ \A s \in complete : port.queued[s] >= 1
             /\ ~port'.lock_]_vars
    /\ [][port'.cmd_pending_ # port.cmd_pending_ => port.lock_]_vars
    /\ [][port'.signals # port.signals => port.in_irq]_vars

\* the handler has just signalled slot 0 and left the pending bit of the
\* last slot, whose command the device has not finished
C39_Witness ==
    /\ ~port.in_irq /\ ~port.lock_ /\ port.irq_ret = INT_RESCHEDULE
    /\ port.signals[0] = 1 /\ port.completed[0] = 1
    /\ port.cmd_pending_ = {CMD_COUNT - 1} /\ port.PxCI = {CMD_COUNT - 1}
    /\ port.signals[CMD_COUNT - 1] = 0

====
